---- MODULE Spec2Model ----
(***************************************************************************)
(* Model of the openclaw-manager configuration engine                      *)
(* (src-tauri/src/commands/config.rs): the JSON document on disk, the env  *)
(* file, and the command handlers that load, mutate and save them.         *)
(*                                                                         *)
(* A JSON value (serde_json::Value) is a tagged record [t, v]:             *)
(*   "null", "bool", "num", "str", "arr" (a sequence), "obj" (a function   *)
(*   from key strings to values).  Strings are TLA+ strings, read one      *)
(*   character at a time with SubSeq.                                      *)
(***************************************************************************)
EXTENDS Integers, Sequences, FiniteSets, TLC

VARIABLES
    cfgFile,    \* the config file: [kind |-> "missing" | "garbage" | "doc", doc |-> value]
    envFile,    \* the env file, as the mapping KEY -> value it holds
    call,       \* the last command called and its arguments
    ret,        \* what the last command returned: [ok, val]
    pre,        \* cfgFile and envFile as they were when the last command started
    init,       \* cfgFile at start-up
    steps,      \* number of commands run so far
    pc,         \* concurrent handlers: position of each ("idle", "loaded", "done")
    local,      \* concurrent handlers: the document each one loaded
    order,      \* concurrent handlers: handlers in the order their writes completed
    authFile,   \* web server: manager-web-auth.json, None while it does not exist
    sessions,   \* web server: AppState.sessions, token -> [username, expires_at]
    session_counter, \* web server: AppState.session_counter
    clock,      \* web server: the system clock, in the unit of now_nanos()
    loggedOut   \* web server: the tokens that logout requests have carried so far

webVars == <<authFile, sessions, session_counter, clock, loggedOut>>

vars == <<cfgFile, envFile, call, ret, pre, init, steps, pc, local, order,
          authFile, sessions, session_counter, clock, loggedOut>>

----------------------------------------------------------------------------
(* Strings *)

Chr(s, i) == SubSeq(s, i, i)

StartsWith(s, p) == Len(s) >= Len(p) /\ SubSeq(s, 1, Len(p)) = p

\* str::find(char): position of the first occurrence, 0 when there is none
Find(s, c) ==
    IF \E i \in 1..Len(s) : Chr(s, i) = c
    THEN CHOOSE i \in 1..Len(s) : Chr(s, i) = c /\ \A j \in 1..(i - 1) : Chr(s, j) # c
    ELSE 0

\* str::split_once(char): <<before, after>> around the first occurrence, <<>> when none
SplitOnce(s, c) ==
    LET i == Find(s, c)
    IN  IF i = 0 THEN <<>> ELSE <<SubSeq(s, 1, i - 1), SubSeq(s, i + 1, Len(s))>>

IsWhitespace(c) == c \in {" ", "\t", "\n", "\r"}

\* str::trim().is_empty()
IsBlank(s) == \A i \in 1..Len(s) : IsWhitespace(Chr(s, i))

\* str::trim()
Trim(s) ==
    IF IsBlank(s) THEN ""
    ELSE LET a == CHOOSE i \in 1..Len(s) :
                     ~IsWhitespace(Chr(s, i)) /\ \A j \in 1..(i - 1) : IsWhitespace(Chr(s, j))
             b == CHOOSE i \in 1..Len(s) :
                     ~IsWhitespace(Chr(s, i)) /\ \A j \in (i + 1)..Len(s) : IsWhitespace(Chr(s, j))
         IN  SubSeq(s, a, b)

LowerCase == "abcdefghijklmnopqrstuvwxyz"
UpperCase == "ABCDEFGHIJKLMNOPQRSTUVWXYZ"

RECURSIVE ToUppercase(_)
\* str::to_uppercase()
ToUppercase(s) ==
    IF s = "" THEN ""
    ELSE LET c == Chr(s, 1)
             u == IF \E i \in 1..26 : Chr(LowerCase, i) = c
                  THEN Chr(UpperCase, CHOOSE i \in 1..26 : Chr(LowerCase, i) = c)
                  ELSE c
         IN  u \o ToUppercase(SubSeq(s, 2, Len(s)))

----------------------------------------------------------------------------
(* serde_json::Value *)

Null    == [t |-> "null", v |-> 0]
Bool(b) == [t |-> "bool", v |-> b]
Num(n)  == [t |-> "num", v |-> n]
Str(s)  == [t |-> "str", v |-> s]
Arr(q)  == [t |-> "arr", v |-> q]
Obj(f)  == [t |-> "obj", v |-> f]
EmptyObj == Obj(<<>>)

\* Option::None, and the outcome of a handler that panicked
None   == [t |-> "none", v |-> 0]
Panic  == [t |-> "panic", v |-> 0]

IsNone(x)   == x.t = "none"
IsSome(x)   == x.t # "none"
IsObject(x) == x.t = "obj"
IsArray(x)  == x.t = "arr"
IsString(x) == x.t = "str"
IsNull(x)   == x.t = "null"

HasKey(x, k) == IsObject(x) /\ k \in DOMAIN x.v

\* Value::get(&str): None unless x is an object holding the key
Get(x, k) == IF HasKey(x, k) THEN x.v[k] ELSE None

\* Index<&str> (read): Null unless x is an object holding the key
Index(x, k) == IF HasKey(x, k) THEN x.v[k] ELSE Null

\* Map::insert
Insert(f, k, val) == [x \in (DOMAIN f) \cup {k} |-> IF x = k THEN val ELSE f[x]]

\* Map::remove
Remove(f, k) == [x \in (DOMAIN f) \ {k} |-> f[x]]

RECURSIVE SetPath(_, _, _)
\* IndexMut<&str> chain  x[p1][p2]... = val : null becomes an object, a missing
\* key is created, any other non-object panics
SetPath(x, path, val) ==
    IF path = <<>> THEN val
    ELSE IF x.t = "panic" \/ val.t = "panic" THEN Panic
    ELSE IF ~(IsObject(x) \/ IsNull(x)) THEN Panic
    ELSE LET f     == IF IsObject(x) THEN x.v ELSE <<>>
             k     == Head(path)
             child == IF k \in DOMAIN f THEN f[k] ELSE Null
             sub   == SetPath(child, Tail(path), val)
         IN  IF sub.t = "panic" THEN Panic ELSE Obj(Insert(f, k, sub))

RECURSIVE GetPath(_, _)
\* chain of Value::get
GetPath(x, path) ==
    IF path = <<>> THEN x
    ELSE IF HasKey(x, Head(path)) THEN GetPath(x.v[Head(path)], Tail(path))
    ELSE None

Digits == "0123456789"

IsDigit(c) == \E i \in 1..10 : Chr(Digits, i) = c

RECURSIVE ParseNat(_)
ParseNat(s) ==
    IF s = "" THEN 0
    ELSE 10 * ParseNat(SubSeq(s, 1, Len(s) - 1))
         + ((CHOOSE i \in 1..10 : Chr(Digits, i) = Chr(s, Len(s))) - 1)

\* serde_json parse_index: digits only, no leading '+', no leading zero but "0"; -1 when rejected
ParseIndex(s) ==
    IF s = "" \/ (Len(s) > 1 /\ Chr(s, 1) = "0") \/ \E i \in 1..Len(s) : ~IsDigit(Chr(s, i))
    THEN -1
    ELSE ParseNat(s)

RECURSIVE ReplaceAll(_, _, _)
\* str::replace with a two-character pattern
ReplaceAll(s, pat, by) ==
    IF Len(s) < 2 THEN s
    ELSE IF SubSeq(s, 1, 2) = pat THEN by \o ReplaceAll(SubSeq(s, 3, Len(s)), pat, by)
    ELSE Chr(s, 1) \o ReplaceAll(SubSeq(s, 2, Len(s)), pat, by)

RECURSIVE PointerTokens(_)
\* the reference tokens of a JSON pointer that starts after its leading '/'
PointerTokens(s) ==
    LET parts == SplitOnce(s, "/")
    IN  IF parts = <<>> THEN <<s>> ELSE <<parts[1]>> \o PointerTokens(parts[2])

RECURSIVE Walk(_, _)
Walk(x, toks) ==
    IF toks = <<>> THEN x
    ELSE LET tok == ReplaceAll(ReplaceAll(Head(toks), "~1", "/"), "~0", "~")
         IN  IF IsObject(x)
             THEN IF tok \in DOMAIN x.v THEN Walk(x.v[tok], Tail(toks)) ELSE None
             ELSE IF IsArray(x)
             THEN LET i == ParseIndex(tok)
                  IN  IF i >= 0 /\ i < Len(x.v) THEN Walk(x.v[i + 1], Tail(toks)) ELSE None
             ELSE None

\* Value::pointer (RFC 6901)
Pointer(x, ptr) ==
    IF ptr = "" THEN x
    ELSE IF Chr(ptr, 1) # "/" THEN None
    ELSE Walk(x, PointerTokens(SubSeq(ptr, 2, Len(ptr))))

\* Option<&Value>::and_then(as_str), and_then(as_object), ...
AsStr(x)    == IF IsString(x) THEN x ELSE None
AsObject(x) == IF IsObject(x) THEN x ELSE None
AsArray(x)  == IF IsArray(x) THEN x ELSE None

----------------------------------------------------------------------------
(* Files and the process environment *)

\* the variables of the manager's own process (std::env::var)
ProcEnv == ("OPENAI_KEY" :> "sk-live")

Missing   == [kind |-> "missing", doc |-> Null]
Garbage   == [kind |-> "garbage", doc |-> Null]
Doc(d)    == [kind |-> "doc", doc |-> d]

Ok(val)   == [ok |-> TRUE, val |-> val]
Err(msg)  == [ok |-> FALSE, val |-> msg]

\* file::read_env_value
read_env_value(env, key) == IF key \in DOMAIN env THEN Str(env[key]) ELSE None

\* file::set_env_value
set_env_value(env, key, val) == Insert(env, key, val)

\* file::remove_env_value
remove_env_value(env, key) == Remove(env, key)

\* load_env_file_vars: the KEY -> value mapping the env file holds
load_env_file_vars(env) == env

----------------------------------------------------------------------------
(* Variable substitution *)

\* position of the first '}' at or after position from, 0 when there is none
FindClose(input, from) ==
    LET rel == Find(SubSeq(input, from, Len(input)), "}")
    IN  IF rel = 0 THEN 0 ELSE from + rel - 1

\* the lookup with the env file asked first
LookupVar_FileFirst(name, envVars) ==
    IF name \in DOMAIN envVars THEN Str(envVars[name])
    ELSE IF name \in DOMAIN ProcEnv THEN Str(ProcEnv[name])
    ELSE None

\* std::env::var(name).ok().or_else(|| env_file_vars.get(name))
LookupVar(name, envVars) ==
    IF name \in DOMAIN ProcEnv THEN Str(ProcEnv[name])
    ELSE IF name \in DOMAIN envVars THEN Str(envVars[name])
    ELSE None

\* output.push_str(prefix) in front of what the rest of the scan gives
Prepend(prefix, rest) == IF rest.ok THEN Ok(prefix \o rest.val) ELSE rest

RECURSIVE ReplaceFrom(_, _, _)
\* the scanning loop of replace_config_vars_in_string, from position i (1-based);
\* a run of characters other than '$' is copied in one step
ReplaceFrom(input, i, envVars) ==
    LET n      == Len(input)
        dollar == Find(SubSeq(input, i, n), "$")
        escEnd == IF i + 2 <= n /\ Chr(input, i + 1) = "$" /\ Chr(input, i + 2) = "{"
                  THEN FindClose(input, i + 3) ELSE 0
        varEnd == IF i + 1 <= n /\ Chr(input, i + 1) = "{"
                  THEN FindClose(input, i + 2) ELSE 0
        name   == Trim(SubSeq(input, i + 2, varEnd - 1))
    IN  IF i > n THEN Ok("")
        ELSE IF dollar = 0 THEN Ok(SubSeq(input, i, n))
        ELSE IF dollar > 1
        THEN Prepend(SubSeq(input, i, i + dollar - 2), ReplaceFrom(input, i + dollar - 1, envVars))
        ELSE IF escEnd # 0
        THEN Prepend("${" \o SubSeq(input, i + 3, escEnd - 1) \o "}",
                     ReplaceFrom(input, escEnd + 1, envVars))
        ELSE IF varEnd # 0
        THEN IF name = "" THEN Err("empty variable name")
             ELSE IF IsNone(LookupVar(name, envVars)) THEN Err("missing variable " \o name)
             ELSE Prepend(LookupVar(name, envVars).v, ReplaceFrom(input, varEnd + 1, envVars))
        ELSE Prepend("$", ReplaceFrom(input, i + 1, envVars))

replace_config_vars_in_string(input, envVars) == ReplaceFrom(input, 1, envVars)

RECURSIVE replace_config_vars(_, _)
\* substitution in every string of the tree; the first error aborts
replace_config_vars(value, envVars) ==
    IF IsString(value)
    THEN LET r == replace_config_vars_in_string(value.v, envVars)
         IN  IF r.ok THEN Ok(Str(r.val)) ELSE r
    ELSE IF IsArray(value)
    THEN LET rs == [i \in 1..Len(value.v) |-> replace_config_vars(value.v[i], envVars)]
         IN  IF \E i \in 1..Len(value.v) : ~rs[i].ok
             THEN rs[CHOOSE i \in 1..Len(value.v) : ~rs[i].ok /\ \A j \in 1..(i - 1) : rs[j].ok]
             ELSE Ok(Arr([i \in 1..Len(value.v) |-> rs[i].val]))
    ELSE IF IsObject(value)
    THEN LET rs == [k \in DOMAIN value.v |-> replace_config_vars(value.v[k], envVars)]
         IN  IF \E k \in DOMAIN value.v : ~rs[k].ok
             THEN Err("substitution failed")
             ELSE Ok(Obj([k \in DOMAIN value.v |-> rs[k].val]))
    ELSE Ok(value)

\* a raw load that replaces the variables, as load_openclaw_config does
load_openclaw_config_raw_Substituting(file) ==
    IF file.kind = "missing" THEN Ok(EmptyObj)
    ELSE IF file.kind = "garbage" THEN Err("JSON/JSON5 parse failed")
    ELSE replace_config_vars(file.doc, load_env_file_vars(envFile))

\* load_openclaw_config_raw: no file is the empty object, an unparsable file is an error
load_openclaw_config_raw(file) ==
    IF file.kind = "missing" THEN Ok(EmptyObj)
    ELSE IF file.kind = "garbage" THEN Err("JSON/JSON5 parse failed")
    ELSE Ok(file.doc)

\* load_openclaw_config: the raw document with its variables replaced
load_openclaw_config(file, env) ==
    LET raw == load_openclaw_config_raw(file)
    IN  IF raw.ok THEN replace_config_vars(raw.val, load_env_file_vars(env)) ELSE raw

----------------------------------------------------------------------------
(* Bindings: (channel, accountId) -> agentId in three shapes on disk *)

\* the printable ASCII characters, in code order (the backquote left out)
Ascii == " !\"#$%&'()*+,-./0123456789:;<=>?@ABCDEFGHIJKLMNOPQRSTUVWXYZ[\\]^_abcdefghijklmnopqrstuvwxyz{|}~"

Ord(c) == CHOOSE i \in 1..Len(Ascii) : Chr(Ascii, i) = c

RECURSIVE KeyLess(_, _)
\* the order of the keys of a serde_json::Map (a BTreeMap<String, Value>)
KeyLess(a, b) ==
    IF a = "" THEN b # ""
    ELSE IF b = "" THEN FALSE
    ELSE IF Chr(a, 1) = Chr(b, 1) THEN KeyLess(SubSeq(a, 2, Len(a)), SubSeq(b, 2, Len(b)))
    ELSE Ord(Chr(a, 1)) < Ord(Chr(b, 1))

RECURSIVE SortedKeys(_)
SortedKeys(S) ==
    IF S = {} THEN <<>>
    ELSE LET m == CHOOSE k \in S : \A o \in S \ {k} : KeyLess(k, o)
         IN  <<m>> \o SortedKeys(S \ {m})

\* entries of b override those of a
Override(a, b) == [p \in (DOMAIN a) \cup (DOMAIN b) |-> IF p \in DOMAIN b THEN b[p] ELSE a[p]]

NoPairs == [p \in {} |-> ""]

OnePair(channel, account, agent) == [p \in {<<channel, account>>} |-> agent]

\* a retain that keeps the pairs of the channel at hand and drops the others
RetainOtherChannels_Inverted(pairs, channel_id) ==
    [p \in {q \in DOMAIN pairs : q[1] = channel_id} |-> pairs[p]]

\* all_pairs.retain(|(binding_channel, _), _| binding_channel != channel_id)
RetainOtherChannels(pairs, channel_id) ==
    [p \in {q \in DOMAIN pairs : q[1] # channel_id} |-> pairs[p]]

\* what one array element contributes
ArrayItemPairs(item) ==
    LET agent   == AsStr(Get(item, "agentId"))
        m       == AsObject(Get(item, "match"))
        channel == AsStr(Get(m, "channel"))
        account == AsStr(Get(m, "accountId"))
    IN  IF IsNone(agent) \/ IsNone(m) \/ IsNone(channel) \/ IsNone(account) THEN NoPairs
        ELSE OnePair(channel.v, account.v, agent.v)

\* what one (account_id, nested) entry of a grouped channel contributes
NestedPairs(channel, account, nested) ==
    IF IsString(nested) THEN OnePair(channel, account, nested.v)
    ELSE IF IsString(Get(nested, "agentId")) THEN OnePair(channel, account, Get(nested, "agentId").v)
    ELSE NoPairs

\* the member of an object with ':' tried before '/'
ObjectMemberPairs_ColonFirst(key, value) ==
    IF IsString(value) /\ SplitOnce(key, ":") # <<>>
    THEN OnePair(SplitOnce(key, ":")[1], SplitOnce(key, ":")[2], value.v)
    ELSE IF IsString(value) /\ SplitOnce(key, "/") # <<>>
    THEN OnePair(SplitOnce(key, "/")[1], SplitOnce(key, "/")[2], value.v)
    ELSE IF IsString(value) /\ SplitOnce(key, ".") # <<>>
    THEN OnePair(SplitOnce(key, ".")[1], SplitOnce(key, ".")[2], value.v)
    ELSE IF IsObject(value)
    THEN LET accs == DOMAIN value.v
             each == [a \in accs |-> NestedPairs(key, a, value.v[a])]
         IN  [p \in UNION {DOMAIN each[a] : a \in accs} |->
                 each[CHOOSE a \in accs : p \in DOMAIN each[a]][p]]
    ELSE NoPairs

\* what one (key, value) member of an object contributes
ObjectMemberPairs(key, value) ==
    IF IsString(value) /\ SplitOnce(key, "/") # <<>>
    THEN OnePair(SplitOnce(key, "/")[1], SplitOnce(key, "/")[2], value.v)
    ELSE IF IsString(value) /\ SplitOnce(key, ":") # <<>>
    THEN OnePair(SplitOnce(key, ":")[1], SplitOnce(key, ":")[2], value.v)
    ELSE IF IsString(value) /\ SplitOnce(key, ".") # <<>>
    THEN OnePair(SplitOnce(key, ".")[1], SplitOnce(key, ".")[2], value.v)
    ELSE IF IsObject(value)
    THEN LET accs == DOMAIN value.v
             each == [a \in accs |-> NestedPairs(key, a, value.v[a])]
         IN  [p \in UNION {DOMAIN each[a] : a \in accs} |->
                 each[CHOOSE a \in accs : p \in DOMAIN each[a]][p]]
    ELSE NoPairs

RECURSIVE ParseArrayFrom(_, _)
ParseArrayFrom(arr, result) ==
    IF arr = <<>> THEN result
    ELSE ParseArrayFrom(Tail(arr), Override(result, ArrayItemPairs(Head(arr))))

RECURSIVE ParseObjectFrom(_, _, _)
ParseObjectFrom(obj, keys, result) ==
    IF keys = <<>> THEN result
    ELSE ParseObjectFrom(obj, Tail(keys),
                         Override(result, ObjectMemberPairs(Head(keys), obj[Head(keys)])))

\* parse_account_bindings: later entries win
parse_account_bindings(bindings) ==
    IF IsArray(bindings) THEN ParseArrayFrom(bindings.v, NoPairs)
    ELSE IF IsObject(bindings)
    THEN ParseObjectFrom(bindings.v, SortedKeys(DOMAIN bindings.v), NoPairs)
    ELSE NoPairs

BindingEntry(channel, account, agent) ==
    Obj(("agentId" :> Str(agent))
        @@ ("match" :> Obj(("channel" :> Str(channel)) @@ ("accountId" :> Str(account)))))

\* the orders in which a HashMap may hand out its keys
Orders(S) == {q \in [1..Cardinality(S) -> S] : \A i, j \in 1..Cardinality(S) : q[i] = q[j] => i = j}

\* merge_bindings_payload_by_shape with the two parts of the flat key exchanged
merge_bindings_payload_by_shape_KeySwapped(original_bindings, all_pairs) ==
    IF IsArray(original_bindings) \/ ~IsObject(original_bindings)
    THEN {Arr([i \in 1..Len(q) |-> BindingEntry(q[i][1], q[i][2], all_pairs[q[i]])]) :
             q \in Orders(DOMAIN all_pairs)}
    ELSE IF \A k \in DOMAIN original_bindings.v : IsString(original_bindings.v[k])
    THEN {Obj([key \in {p[2] \o "/" \o p[1] : p \in DOMAIN all_pairs} |->
                 Str(all_pairs[CHOOSE p \in DOMAIN all_pairs : p[2] \o "/" \o p[1] = key])])}
    ELSE {Obj([channel \in {p[1] : p \in DOMAIN all_pairs} |->
                 Obj([account \in {p[2] : p \in {r \in DOMAIN all_pairs : r[1] = channel}} |->
                        Str(all_pairs[<<channel, account>>])])])}

\* merge_bindings_payload_by_shape: the values it can return (an array comes
\* out in the iteration order of the HashMap, which is not fixed)
merge_bindings_payload_by_shape(original_bindings, all_pairs) ==
    IF IsArray(original_bindings) \/ ~IsObject(original_bindings)
    THEN {Arr([i \in 1..Len(q) |-> BindingEntry(q[i][1], q[i][2], all_pairs[q[i]])]) :
             q \in Orders(DOMAIN all_pairs)}
    ELSE IF \A k \in DOMAIN original_bindings.v : IsString(original_bindings.v[k])
    THEN {Obj([key \in {p[1] \o "/" \o p[2] : p \in DOMAIN all_pairs} |->
                 Str(all_pairs[CHOOSE p \in DOMAIN all_pairs : p[1] \o "/" \o p[2] = key])])}
    ELSE {Obj([channel \in {p[1] : p \in DOMAIN all_pairs} |->
                 Obj([account \in {p[2] : p \in {r \in DOMAIN all_pairs : r[1] = channel}} |->
                        Str(all_pairs[<<channel, account>>])])])}

----------------------------------------------------------------------------
(* Channels *)

\* Option<&Value>::unwrap_or
UnwrapOr(x, default) == IF IsNone(x) THEN default ELSE x

TestOnlyFields == <<"userId", "testChatId", "testChannelId">>

IsTestOnly(key) == \E i \in 1..Len(TestOnlyFields) : TestOnlyFields[i] = key

\* format!("OPENCLAW_{}_{}", channel_id.to_uppercase(), field.to_uppercase())
EnvKey(channel_id, field) == "OPENCLAW_" \o ToUppercase(channel_id) \o "_" \o ToUppercase(field)

\* the supported channels and the test fields get_channels_config reads for each
ChannelTypes ==
    <<[id |-> "telegram", test_fields |-> <<"userId">>],
      [id |-> "discord",  test_fields |-> <<"testChannelId">>],
      [id |-> "slack",    test_fields |-> <<"testChannelId">>],
      [id |-> "feishu",   test_fields |-> <<"testChatId">>],
      [id |-> "whatsapp", test_fields |-> <<>>],
      [id |-> "imessage", test_fields |-> <<>>],
      [id |-> "wechat",   test_fields |-> <<>>],
      [id |-> "dingtalk", test_fields |-> <<>>]>>

\* save_channel_config, lines 1284-1301: channels, plugins.allow and plugins.entries exist
EnsureChannelPaths(config) ==
    LET c1 == IF IsNone(Get(config, "channels"))
              THEN SetPath(config, <<"channels">>, EmptyObj) ELSE config
        c2 == IF IsNone(Get(c1, "plugins"))
              THEN SetPath(c1, <<"plugins">>,
                           Obj(("allow" :> Arr(<<>>)) @@ ("entries" :> EmptyObj)))
              ELSE c1
        c3 == IF IsNone(Get(Index(c2, "plugins"), "allow"))
              THEN SetPath(c2, <<"plugins", "allow">>, Arr(<<>>)) ELSE c2
    IN  IF IsNone(Get(Index(c3, "plugins"), "entries"))
        THEN SetPath(c3, <<"plugins", "entries">>, EmptyObj) ELSE c3

RECURSIVE SaveTestFields(_, _, _, _)
\* save_channel_config, lines 1312-1322: the test-only fields go to the env file
SaveTestFields(env, channel, fields, i) ==
    IF i > Len(fields) THEN env
    ELSE LET key  == fields[i]
             next == IF key \in DOMAIN channel.config /\ IsString(channel.config[key])
                     THEN set_env_value(env, EnvKey(channel.id, key), channel.config[key].v)
                     ELSE env
         IN  SaveTestFields(next, channel, fields, i + 1)

\* save_channel_config, lines 1306-1343: the channel block that is stored
ChannelObject(config, channel) ==
    LET keys     == {k \in DOMAIN channel.config : ~IsTestOnly(k)}
        fields   == [k \in {"enabled"} \cup keys |->
                        IF k \in keys THEN channel.config[k] ELSE Bool(TRUE)]
        existing == Pointer(config, "/channels/" \o channel.id \o "/accounts")
    IN  IF IsSome(channel.accounts)
        THEN IF channel.accounts.v # <<>>
             THEN Obj(Insert(fields, "accounts", channel.accounts))
             ELSE Obj(fields)
        ELSE IF IsSome(existing)
        THEN Obj(Insert(fields, "accounts", existing))
        ELSE Obj(fields)

\* allow_arr.retain(|v| v.as_str().map(|s| !s.trim().is_empty()).unwrap_or(true))
IsNotBlankEntry(v) == ~(IsString(v) /\ IsBlank(v.v))

Contains(arr, val) == \E i \in 1..Len(arr) : arr[i] = val

\* the channel is pushed without looking whether it is in the list
AllowChannel_AlwaysPush(config, channel_id) ==
    LET allow == Index(Index(config, "plugins"), "allow")
    IN  IF IsArray(allow)
        THEN SetPath(config, <<"plugins", "allow">>,
                     Arr(Append(SelectSeq(allow.v, IsNotBlankEntry), Str(channel_id))))
        ELSE config

\* save_channel_config, lines 1348-1356: plugins.allow without blanks, with the channel
AllowChannel(config, channel_id) ==
    LET allow == Index(Index(config, "plugins"), "allow")
    IN  IF IsArray(allow)
        THEN LET kept == SelectSeq(allow.v, IsNotBlankEntry)
             IN  SetPath(config, <<"plugins", "allow">>,
                         Arr(IF Contains(kept, Str(channel_id)) THEN kept
                             ELSE Append(kept, Str(channel_id))))
        ELSE config

\* the pairs of the accounts with the test for a blank agentId left out
AccountPairs_BlankToo(channel) ==
    IF IsNone(channel.accounts) THEN NoPairs
    ELSE LET accs  == channel.accounts.v
             agent(a) == AsStr(Get(accs[a], "agentId"))
             good  == {a \in DOMAIN accs : IsSome(agent(a))}
         IN  [p \in {<<channel.id, a>> : a \in good} |-> agent(p[2]).v]

\* save_channel_config, lines 1369-1382: the pairs the supplied accounts give
AccountPairs(channel) ==
    IF IsNone(channel.accounts) THEN NoPairs
    ELSE LET accs  == channel.accounts.v
             agent(a) == AsStr(Get(accs[a], "agentId"))
             good  == {a \in DOMAIN accs : IsSome(agent(a)) /\ ~IsBlank(agent(a).v)}
         IN  [p \in {<<channel.id, a>> : a \in good} |-> agent(p[2]).v]

\* save_channel_config up to the save: the documents and env file it may hold then
SaveChannelBody(loaded, env, channel) ==
    LET c4       == EnsureChannelPaths(loaded)
        env1     == IF c4.t = "panic" THEN env
                    ELSE SaveTestFields(env, channel, TestOnlyFields, 1)
        c5       == SetPath(c4, <<"channels", channel.id>>, ChannelObject(c4, channel))
        c6       == SetPath(AllowChannel(c5, channel.id),
                            <<"plugins", "entries", channel.id>>,
                            Obj("enabled" :> Bool(TRUE)))
        existing == UnwrapOr(Get(c6, "bindings"), Arr(<<>>))
        pairs    == Override(RetainOtherChannels(parse_account_bindings(existing), channel.id),
                             AccountPairs(channel))
    IN  {[doc |-> SetPath(c6, <<"bindings">>, b), env |-> env1, val |-> "saved"] :
            b \in merge_bindings_payload_by_shape(existing, pairs)}

\* the retain with its test inverted: only the cleared channel stays
WithoutChannel_Inverted(arr, channel_id) ==
    LET IsSame(v) == v = Str(channel_id) IN SelectSeq(arr, IsSame)

\* allow_arr.retain(|v| v.as_str() != Some(&channel_id))
WithoutChannel(arr, channel_id) ==
    LET IsOther(v) == v # Str(channel_id) IN SelectSeq(arr, IsOther)

\* clear_channel_config up to the save
ClearChannelBody(loaded, env, channel_id) ==
    LET c1       == IF IsObject(Get(loaded, "channels"))
                    THEN SetPath(loaded, <<"channels">>,
                                 Obj(Remove(Get(loaded, "channels").v, channel_id)))
                    ELSE loaded
        allow    == Pointer(c1, "/plugins/allow")
        c2       == IF IsArray(allow)
                    THEN SetPath(c1, <<"plugins", "allow">>,
                                 Arr(WithoutChannel(allow.v, channel_id)))
                    ELSE c1
        entries  == Pointer(c2, "/plugins/entries")
        c3       == IF IsObject(entries)
                    THEN SetPath(c2, <<"plugins", "entries">>,
                                 Obj(Remove(entries.v, channel_id)))
                    ELSE c2
        existing == UnwrapOr(Get(c3, "bindings"), Arr(<<>>))
        pairs    == RetainOtherChannels(parse_account_bindings(existing), channel_id)
        env1     == remove_env_value(
                        remove_env_value(
                            remove_env_value(env, "OPENCLAW_" \o ToUppercase(channel_id) \o "_USERID"),
                            "OPENCLAW_" \o ToUppercase(channel_id) \o "_TESTCHATID"),
                        "OPENCLAW_" \o ToUppercase(channel_id) \o "_TESTCHANNELID")
    IN  {[doc |-> SetPath(c3, <<"bindings">>, b),
          env |-> IF SetPath(c3, <<"bindings">>, b).t = "panic" THEN env ELSE env1,
          val |-> "cleared"] :
            b \in merge_bindings_payload_by_shape(existing, pairs)}

RECURSIVE ReadTestFields(_, _, _, _)
\* get_channels_config, lines 1241-1251
ReadTestFields(config_map, env, channel_id, fields) ==
    IF fields = <<>> THEN config_map
    ELSE LET value == read_env_value(env, EnvKey(channel_id, Head(fields)))
         IN  ReadTestFields(IF IsSome(value) THEN Insert(config_map, Head(fields), value)
                            ELSE config_map,
                            env, channel_id, Tail(fields))

\* get_channels_config, lines 1198-1262: the ChannelConfig reported for one channel
ChannelView(channels_obj, account_bindings, env, ctype) ==
    LET channel_config == Get(channels_obj, ctype.id)
        stored     == AsObject(Get(channel_config, "accounts"))
        accounts0  == IF IsSome(stored) THEN stored.v ELSE <<>>
        bound      == {p[2] : p \in {q \in DOMAIN account_bindings : q[1] = ctype.id}}
        accounts   == [a \in (DOMAIN accounts0) \cup bound |->
                        LET entry == IF a \in DOMAIN accounts0 THEN accounts0[a] ELSE EmptyObj
                        IN  IF a \in bound /\ IsObject(entry)
                            THEN Obj(Insert(entry.v, "agentId", Str(account_bindings[<<ctype.id, a>>])))
                            ELSE entry]
        enabled    == Get(channel_config, "enabled") = Bool(TRUE)
        config0    == IF IsObject(channel_config)
                      THEN [k \in (DOMAIN channel_config.v) \ {"enabled", "accounts"} |->
                               channel_config.v[k]]
                      ELSE <<>>
        config_map == ReadTestFields(config0, env, ctype.id, ctype.test_fields)
    IN  [id       |-> ctype.id,
         enabled  |-> (config_map # <<>>) \/ enabled \/ (accounts # <<>>),
         config   |-> config_map,
         accounts |-> IF accounts = <<>> THEN None ELSE Obj(accounts)]

\* get_channels_config
get_channels_config(file, env) ==
    LET loaded == load_openclaw_config(file, env)
    IN  IF ~loaded.ok THEN loaded
        ELSE LET channels_obj == UnwrapOr(Get(loaded.val, "channels"), EmptyObj)
                 bindings_obj == UnwrapOr(Get(loaded.val, "bindings"), Arr(<<>>))
                 account_bindings == parse_account_bindings(bindings_obj)
             IN  Ok([i \in 1..Len(ChannelTypes) |->
                        ChannelView(channels_obj, account_bindings, env, ChannelTypes[i])])

----------------------------------------------------------------------------
(* Running a command *)

MaxSteps == 2

\* file::write_file: the content replaces the whole file in one step, or the
\* write fails and the file is as it was
write_file(file, content, writeOk) == IF writeOk THEN content ELSE file

\* save_openclaw_config: the serialized document is handed to write_file
save_openclaw_config(file, config, writeOk) == write_file(file, Doc(config), writeOk)

\* a mutating handler after its load: o is what its body produced
Finish(c, o, writeOk) ==
    /\ steps' = steps + 1
    /\ call' = c
    /\ pre' = [cfg |-> cfgFile, env |-> envFile]
    /\ envFile' = o.env
    /\ IF o.doc.t = "panic"
       THEN cfgFile' = cfgFile /\ ret' = Err("panicked")
       ELSE /\ cfgFile' = save_openclaw_config(cfgFile, o.doc, writeOk)
            /\ ret' = IF writeOk THEN Ok(o.val) ELSE Err("write failed")
    /\ UNCHANGED <<init, pc, local, order, webVars>>

\* a handler that returns without writing
Return(c, r) ==
    /\ steps' = steps + 1
    /\ call' = c
    /\ pre' = [cfg |-> cfgFile, env |-> envFile]
    /\ ret' = r
    /\ UNCHANGED <<cfgFile, envFile, init, pc, local, order, webVars>>

\* what a handler gets from load_openclaw_config_raw()
Loaded == load_openclaw_config_raw(cfgFile)

\* a mutating command: the load failed and is returned, or one of the outcomes
\* of the body (run on Loaded.val) is saved
Mutate(c, outcomes, writeOk) ==
    /\ steps < MaxSteps
    /\ IF ~Loaded.ok THEN Return(c, Loaded)
       ELSE \E o \in outcomes : Finish(c, o, writeOk)

NoCall == [cmd |-> "none", arg |-> Null]

\* web_server.rs main, lines 113-119: no session, the counter at 1; the
\* commands of this file never touch the web server's state
WebStarted ==
    /\ authFile = None
    /\ sessions = <<>>
    /\ session_counter = 1
    /\ clock = 0
    /\ loggedOut = {}

Idle == [h \in {1, 2} |-> "idle"]

StartFrom(file, env) ==
    /\ cfgFile = file
    /\ envFile = env
    /\ init = file
    /\ pre = [cfg |-> file, env |-> env]
    /\ call = NoCall
    /\ ret = Ok("")
    /\ steps = 0
    /\ pc = Idle
    /\ local = [p \in {1, 2} |-> Null]
    /\ order = <<>>
    /\ WebStarted

----------------------------------------------------------------------------
(* The channel commands *)

SaveChannelConfig(channel, writeOk) ==
    Mutate([cmd |-> "save_channel_config", arg |-> channel],
           SaveChannelBody(Loaded.val, envFile, channel), writeOk)

ClearChannelConfig(channel_id, writeOk) ==
    Mutate([cmd |-> "clear_channel_config", arg |-> channel_id],
           ClearChannelBody(Loaded.val, envFile, channel_id), writeOk)

GetChannelsConfig ==
    /\ steps < MaxSteps
    /\ Return([cmd |-> "get_channels_config", arg |-> Null], get_channels_config(cfgFile, envFile))

\* documents the channel commands start from
Binding(agent, channel, account) == BindingEntry(channel, account, agent)

BindingsArray ==
    Arr(<<Binding("main", "telegram", "default"), Binding("helper", "discord", "d1")>>)

BindingsFlat ==
    Obj(("telegram/default" :> Str("main")) @@ ("discord:d1" :> Str("helper")))

BindingsGrouped ==
    Obj("telegram" :> Obj("default" :> Obj("agentId" :> Str("main"))))

BindingsGroupedTwo ==
    Obj(("telegram" :> Obj("default" :> Str("main"))) @@ ("discord" :> Obj("d1" :> Str("helper"))))

TelegramBlock ==
    Obj(("enabled" :> Bool(TRUE)) @@ ("botToken" :> Str("${TG_TOKEN}"))
        @@ ("accounts" :> Obj("default" :> Obj("agentId" :> Str("main")))))

ChannelBase ==
    Obj(("channels" :> Obj("telegram" :> TelegramBlock))
        @@ ("plugins" :> Obj(("allow" :> Arr(<<Str("telegram"), Str(" ")>>))
                             @@ ("entries" :> Obj("telegram" :> Obj("enabled" :> Bool(TRUE))))))
        @@ ("custom" :> Obj("note" :> Str("$${LITERAL}"))))

ChannelDocs ==
    {ChannelBase}
    \cup {Obj(Insert(ChannelBase.v, "bindings", b)) :
            b \in {BindingsArray, BindingsFlat, BindingsGrouped, BindingsGroupedTwo}}

EnvPlain == ("TG_TOKEN" :> "tg-secret")

EnvWithTestKeys ==
    EnvPlain @@ ("OPENCLAW_TELEGRAM_USERID" :> "7") @@ ("OPENCLAW_DISCORD_TESTCHANNELID" :> "8")

ChannelIds == {"telegram", "discord"}

ChannelArgs ==
    {[id |-> "telegram", config |-> ("botToken" :> Str("tok1")) @@ ("userId" :> Str("42")),
      accounts |-> None],
     [id |-> "telegram", config |-> <<>>, accounts |-> EmptyObj],
     [id |-> "telegram", config |-> ("botToken" :> Str("tok1")),
      accounts |-> Obj(("acc1" :> Obj("agentId" :> Str(" ")))
                       @@ ("acc2" :> Obj("agentId" :> Str("agentY"))))],
     [id |-> "discord", config |-> ("token" :> Str("tok2")) @@ ("testChannelId" :> Str("99")),
      accounts |-> Obj("acc1" :> Obj("agentId" :> Str("agentX")))],
     [id |-> "discord", config |-> <<>>, accounts |-> None],
     [id |-> "telegram", config |-> ("userId" :> Num(42)) @@ ("testChatId" :> Str("c1")),
      accounts |-> None]}

InitChannel ==
    \/ \E file \in {Missing, Garbage} : StartFrom(file, EnvPlain)
    \/ \E d \in ChannelDocs, env \in {EnvPlain, EnvWithTestKeys} : StartFrom(Doc(d), env)

NextChannel ==
    \/ \E channel \in ChannelArgs, writeOk \in BOOLEAN : SaveChannelConfig(channel, writeOk)
    \/ \E id \in ChannelIds, writeOk \in BOOLEAN : ClearChannelConfig(id, writeOk)
    \/ GetChannelsConfig

SpecChannel == InitChannel /\ [][NextChannel]_vars

----------------------------------------------------------------------------
(* Providers and models *)

\* chrono::Utc::now().to_rfc3339(): the moments a save_provider can run at
Times == {"2026-01-01T00:00:00+00:00"}

ZeroCost ==
    Obj(("input" :> Num(0)) @@ ("output" :> Num(0))
        @@ ("cacheRead" :> Num(0)) @@ ("cacheWrite" :> Num(0)))

\* save_provider, lines 798-830: the stored form of one ModelConfig
ModelObject(m, api_type) ==
    LET base == ("id" :> Str(m.id)) @@ ("name" :> Str(m.name))
                @@ ("api" :> IF IsNone(m.api) THEN Str(api_type) ELSE m.api)
                @@ ("input" :> IF m.input = <<>> THEN Arr(<<Str("text")>>) ELSE Arr(m.input))
                @@ ("cost" :> IF IsNone(m.cost) THEN ZeroCost ELSE m.cost)
        opt(f, key, val) == IF IsNone(val) THEN f ELSE Insert(f, key, val)
    IN  Obj(opt(opt(opt(base, "contextWindow", m.context_window),
                    "maxTokens", m.max_tokens),
                "reasoning", m.reasoning))

\* save_provider, lines 777-792: models.providers and agents.defaults.models exist
EnsureProviderPaths(config) ==
    LET c1 == IF IsNone(Get(config, "models"))
              THEN SetPath(config, <<"models">>, EmptyObj) ELSE config
        c2 == IF IsNone(Get(Index(c1, "models"), "providers"))
              THEN SetPath(c1, <<"models", "providers">>, EmptyObj) ELSE c1
        c3 == IF IsNone(Get(c2, "agents"))
              THEN SetPath(c2, <<"agents">>, EmptyObj) ELSE c2
        c4 == IF IsNone(Get(Index(c3, "agents"), "defaults"))
              THEN SetPath(c3, <<"agents", "defaults">>, EmptyObj) ELSE c3
    IN  IF IsNone(Get(Index(Index(c4, "agents"), "defaults"), "models"))
        THEN SetPath(c4, <<"agents", "defaults", "models">>, EmptyObj) ELSE c4

\* save_provider, lines 840-865: the key to store, None for no apiKey field
ProviderApiKey(config, provider_name, api_key) ==
    IF IsSome(api_key) /\ api_key.v # ""
    THEN api_key
    ELSE AsStr(Pointer(config, "/models/providers/" \o provider_name \o "/apiKey"))

RECURSIVE RegisterModels(_, _, _, _)
\* save_provider, lines 870-874
RegisterModels(config, provider_name, models, i) ==
    IF i > Len(models) THEN config
    ELSE RegisterModels(
             SetPath(config,
                     <<"agents", "defaults", "models", provider_name \o "/" \o models[i].id>>,
                     EmptyObj),
             provider_name, models, i + 1)

\* save_provider up to the save; p = [provider_name, base_url, api_key, api_type, models]
SaveProviderBody(loaded, env, p) ==
    LET c5       == EnsureProviderPaths(loaded)
        key      == ProviderApiKey(c5, p.provider_name, p.api_key)
        fields   == ("baseUrl" :> Str(p.base_url))
                    @@ ("models" :> Arr([i \in 1..Len(p.models) |->
                                            ModelObject(p.models[i], p.api_type)]))
        provider == Obj(IF IsNone(key) THEN fields ELSE Insert(fields, "apiKey", key))
        c6       == SetPath(c5, <<"models", "providers", p.provider_name>>, provider)
        c7       == RegisterModels(c6, p.provider_name, p.models, 1)
        c8       == IF IsNone(Get(c7, "meta")) THEN SetPath(c7, <<"meta">>, EmptyObj) ELSE c7
    IN  {[doc |-> SetPath(c8, <<"meta", "lastTouchedAt">>, Str(now)), env |-> env, val |-> "saved"] :
            now \in Times}

\* the test of delete_provider, lines 911 and 925, with the '/' left out of the prefix
HasProviderPrefix_NoSlash(id, provider_name) == StartsWith(id, provider_name)

\* k.starts_with(&format!("{}/", provider_name))
HasProviderPrefix(id, provider_name) == StartsWith(id, provider_name \o "/")

\* delete_provider up to the save
DeleteProviderBody(loaded, env, provider_name) ==
    LET providers == Pointer(loaded, "/models/providers")
        c1        == IF IsObject(providers)
                     THEN SetPath(loaded, <<"models", "providers">>,
                                  Obj(Remove(providers.v, provider_name)))
                     ELSE loaded
        models    == Pointer(c1, "/agents/defaults/models")
        c2        == IF IsObject(models)
                     THEN SetPath(c1, <<"agents", "defaults", "models">>,
                                  Obj([k \in {m \in DOMAIN models.v :
                                                 ~HasProviderPrefix(m, provider_name)} |->
                                          models.v[k]]))
                     ELSE c1
        primary   == AsStr(Pointer(c2, "/agents/defaults/model/primary"))
    IN  {[doc |-> IF IsSome(primary) /\ HasProviderPrefix(primary.v, provider_name)
                  THEN SetPath(c2, <<"agents", "defaults", "model", "primary">>, Null)
                  ELSE c2,
          env |-> env, val |-> "deleted"]}

\* set_primary_model up to the save
SetPrimaryModelBody(loaded, env, model_id) ==
    LET c1 == IF IsNone(Get(loaded, "agents"))
              THEN SetPath(loaded, <<"agents">>, EmptyObj) ELSE loaded
        c2 == IF IsNone(Get(Index(c1, "agents"), "defaults"))
              THEN SetPath(c1, <<"agents", "defaults">>, EmptyObj) ELSE c1
        c3 == IF IsNone(Get(Index(Index(c2, "agents"), "defaults"), "model"))
              THEN SetPath(c2, <<"agents", "defaults", "model">>, EmptyObj) ELSE c2
    IN  {[doc |-> SetPath(c3, <<"agents", "defaults", "model", "primary">>, Str(model_id)),
          env |-> env, val |-> "primary set"]}

\* add_available_model up to the save
AddAvailableModelBody(loaded, env, model_id) ==
    LET c1 == IF IsNone(Get(loaded, "agents"))
              THEN SetPath(loaded, <<"agents">>, EmptyObj) ELSE loaded
        c2 == IF IsNone(Get(Index(c1, "agents"), "defaults"))
              THEN SetPath(c1, <<"agents", "defaults">>, EmptyObj) ELSE c1
        c3 == IF IsNone(Get(Index(Index(c2, "agents"), "defaults"), "models"))
              THEN SetPath(c2, <<"agents", "defaults", "models">>, EmptyObj) ELSE c2
    IN  {[doc |-> SetPath(c3, <<"agents", "defaults", "models", model_id>>, EmptyObj),
          env |-> env, val |-> "added"]}

\* remove_available_model up to the save
RemoveAvailableModelBody(loaded, env, model_id) ==
    LET models == Pointer(loaded, "/agents/defaults/models")
    IN  {[doc |-> IF IsObject(models)
                  THEN SetPath(loaded, <<"agents", "defaults", "models">>,
                               Obj(Remove(models.v, model_id)))
                  ELSE loaded,
          env |-> env, val |-> "removed"]}

SaveProvider(p, writeOk) ==
    Mutate([cmd |-> "save_provider", arg |-> p],
           SaveProviderBody(Loaded.val, envFile, p), writeOk)

DeleteProvider(provider_name, writeOk) ==
    Mutate([cmd |-> "delete_provider", arg |-> provider_name],
           DeleteProviderBody(Loaded.val, envFile, provider_name), writeOk)

SetPrimaryModel(model_id, writeOk) ==
    Mutate([cmd |-> "set_primary_model", arg |-> model_id],
           SetPrimaryModelBody(Loaded.val, envFile, model_id), writeOk)

AddAvailableModel(model_id, writeOk) ==
    Mutate([cmd |-> "add_available_model", arg |-> model_id],
           AddAvailableModelBody(Loaded.val, envFile, model_id), writeOk)

RemoveAvailableModel(model_id, writeOk) ==
    Mutate([cmd |-> "remove_available_model", arg |-> model_id],
           RemoveAvailableModelBody(Loaded.val, envFile, model_id), writeOk)

\* documents the provider commands start from
StoredModel(id) == ModelObject([id |-> id, name |-> id, api |-> None, input |-> <<>>,
                                context_window |-> None, max_tokens |-> None,
                                reasoning |-> None, cost |-> None], "openai-completions")

StoredProvider(key, model) ==
    Obj(("baseUrl" :> Str("https://api.example.com/v1")) @@ ("apiKey" :> Str(key))
        @@ ("models" :> Arr(<<StoredModel(model)>>)))

ProviderSection ==
    Obj("providers" :> Obj(("openai" :> StoredProvider("${OPENAI_KEY}", "gpt-4o"))
                           @@ ("open" :> StoredProvider("sk-open", "m1"))
                           @@ ("my/llm" :> StoredProvider("sk-old", "m2"))))

AvailableModels ==
    Obj(("openai/gpt-4o" :> EmptyObj) @@ ("open/m1" :> EmptyObj) @@ ("my/llm/m2" :> EmptyObj))

ProviderDoc(primary) ==
    Obj(("models" :> ProviderSection)
        @@ ("agents" :> Obj("defaults" :>
                Obj(("models" :> AvailableModels)
                    @@ ("model" :> Obj("primary" :> primary)))))
        @@ ("custom" :> Obj("note" :> Str("$${LITERAL}"))))

ProviderDocs == {ProviderDoc(Str("openai/gpt-4o")), ProviderDoc(Str("open/m1")), ProviderDoc(Null)}

NewModel(id) == [id |-> id, name |-> "Model", api |-> None, input |-> <<>>,
                 context_window |-> Num(128000), max_tokens |-> None,
                 reasoning |-> None, cost |-> None]

ProviderArg(name, key, models) ==
    [provider_name |-> name, base_url |-> "https://llm.example.com", api_key |-> key,
     api_type |-> "openai-completions", models |-> models]

ProviderArgs ==
    {ProviderArg("openai", None, <<NewModel("gpt-4o")>>),
     ProviderArg("openai", Str("sk-new"), <<NewModel("gpt-5")>>),
     ProviderArg("open", Str(""), <<>>),
     ProviderArg("my/llm", Str(""), <<NewModel("m2")>>),
     ProviderArg("fresh", None, <<NewModel("f1")>>)}

ProviderNames == {"openai", "open", "my/llm"}

ModelIds == {"openai/gpt-4o", "open/m1"}

InitProvider ==
    \/ \E file \in {Missing, Garbage} : StartFrom(file, EnvPlain)
    \/ \E d \in ProviderDocs : StartFrom(Doc(d), EnvPlain)

NextProvider ==
    \/ \E p \in ProviderArgs, writeOk \in BOOLEAN : SaveProvider(p, writeOk)
    \/ \E name \in ProviderNames, writeOk \in BOOLEAN : DeleteProvider(name, writeOk)
    \/ \E id \in ModelIds, writeOk \in BOOLEAN : SetPrimaryModel(id, writeOk)
    \/ \E id \in ModelIds, writeOk \in BOOLEAN : AddAvailableModel(id, writeOk)
    \/ \E id \in ModelIds, writeOk \in BOOLEAN : RemoveAvailableModel(id, writeOk)

SpecProvider == InitProvider /\ [][NextProvider]_vars

----------------------------------------------------------------------------
(* save_provider behind the web dispatcher and as the desktop command *)

\* require_string: the argument must be a string with something other than blanks in it
require_string(value, label) ==
    IF ~IsString(value) THEN Err("missing parameter: " \o label)
    ELSE IF Trim(value.v) = "" THEN Err("parameter must not be empty: " \o label)
    ELSE Ok(value.v)

\* the "save_provider" arm of dispatch: three required strings, then the command
InvokeSaveProvider(args, writeOk) ==
    LET provider_name == require_string(args.provider_name, "providerName")
        base_url      == require_string(args.base_url, "baseUrl")
        api_type      == require_string(args.api_type, "apiType")
        c             == [cmd |-> "invoke:save_provider", arg |-> args]
    IN  IF ~provider_name.ok THEN steps < MaxSteps /\ Return(c, provider_name)
        ELSE IF ~base_url.ok THEN steps < MaxSteps /\ Return(c, base_url)
        ELSE IF ~api_type.ok THEN steps < MaxSteps /\ Return(c, api_type)
        ELSE Mutate(c, SaveProviderBody(Loaded.val, envFile,
                                        [provider_name |-> provider_name.val,
                                         base_url      |-> base_url.val,
                                         api_key       |-> args.api_key,
                                         api_type      |-> api_type.val,
                                         models        |-> args.models]), writeOk)

\* names a caller may send: two usual ones, the empty one and two blank ones
CallerNames == {"openai", "fresh", "", " ", " \t"}

DesktopArgs ==
    {ProviderArg(name, key, <<NewModel(id)>>) :
        name \in CallerNames, key \in {None, Str("sk-new")}, id \in {"m0", "gpt-4o"}}

\* the arguments of an invoke request: a required string may be missing altogether
InvokeArgs ==
    {[provider_name |-> name, base_url |-> url, api_key |-> Str("sk-new"),
      api_type |-> Str("openai-completions"), models |-> <<NewModel("m0")>>] :
        name \in {Str(n) : n \in CallerNames} \cup {None},
        url  \in {Str("https://llm.example.com"), Str(" ")}}

\* a document in which an available model carries a setting of its own
AliasDoc ==
    SetPath(ProviderDoc(Str("openai/gpt-4o")),
            <<"agents", "defaults", "models", "openai/gpt-4o">>, Obj("alias" :> Str("fast")))

InitInvoke ==
    \/ InitProvider
    \/ StartFrom(Doc(AliasDoc), EnvPlain)

NextInvoke ==
    \/ \E p \in DesktopArgs, writeOk \in BOOLEAN : SaveProvider(p, writeOk)
    \/ \E args \in InvokeArgs, writeOk \in BOOLEAN : InvokeSaveProvider(args, writeOk)
    \/ \E id \in {"openai/gpt-4o", "fresh/m0"}, writeOk \in BOOLEAN : AddAvailableModel(id, writeOk)

SpecInvoke == InitInvoke /\ [][NextInvoke]_vars

----------------------------------------------------------------------------
(* The whole document, and the gateway token *)

CriticalFields == <<"port", "bind", "trustedProxies", "reload">>

RECURSIVE CopyMissing(_, _, _, _)
\* merge_gateway_critical_fields, lines 185-191, from field i on
CopyMissing(target_gateway, source_gateway, fields, i) ==
    IF i > Len(fields) THEN target_gateway
    ELSE CopyMissing(
             IF fields[i] \notin DOMAIN target_gateway /\ fields[i] \in DOMAIN source_gateway
             THEN Insert(target_gateway, fields[i], source_gateway[fields[i]])
             ELSE target_gateway,
             source_gateway, fields, i + 1)

RECURSIVE CopyAll(_, _, _, _)
\* the loop of merge_gateway_critical_fields without its contains_key test
CopyAll(target_gateway, source_gateway, fields, i) ==
    IF i > Len(fields) THEN target_gateway
    ELSE CopyAll(
             IF fields[i] \in DOMAIN source_gateway
             THEN Insert(target_gateway, fields[i], source_gateway[fields[i]])
             ELSE target_gateway,
             source_gateway, fields, i + 1)

\* merge_gateway_critical_fields where the fields on disk always win
merge_gateway_critical_fields_Overwrite(target, source) ==
    LET source_gateway == AsObject(Get(source, "gateway"))
        t1 == IF IsNone(AsObject(Get(target, "gateway")))
              THEN SetPath(target, <<"gateway">>, EmptyObj) ELSE target
    IN  IF IsNone(source_gateway) THEN target
        ELSE IF ~IsObject(Get(t1, "gateway")) THEN t1
        ELSE SetPath(t1, <<"gateway">>,
                     Obj(CopyAll(Get(t1, "gateway").v, source_gateway.v, CriticalFields, 1)))

\* merge_gateway_critical_fields
merge_gateway_critical_fields(target, source) ==
    LET source_gateway == AsObject(Get(source, "gateway"))
        t1 == IF IsNone(AsObject(Get(target, "gateway")))
              THEN SetPath(target, <<"gateway">>, EmptyObj) ELSE target
    IN  IF IsNone(source_gateway) THEN target
        ELSE IF ~IsObject(Get(t1, "gateway")) THEN t1
        ELSE SetPath(t1, <<"gateway">>,
                     Obj(CopyMissing(Get(t1, "gateway").v, source_gateway.v, CriticalFields, 1)))

\* save_config: the incoming document, with the critical fields of a loadable
\* document on disk merged in, replaces the file
SaveConfig(config, writeOk) ==
    /\ steps < MaxSteps
    /\ LET existing == load_openclaw_config_raw(cfgFile)
           merged   == IF existing.ok THEN merge_gateway_critical_fields(config, existing.val)
                       ELSE config
       IN  Finish([cmd |-> "save_config", arg |-> config],
                  [doc |-> merged, env |-> envFile, val |-> "saved"], writeOk)

\* get_config
GetConfig ==
    /\ steps < MaxSteps
    /\ Return([cmd |-> "get_config", arg |-> Null], load_openclaw_config(cfgFile, envFile))

\* generate_token: its results at two moments one nanosecond apart
GeneratedTokens ==
    {"17979cfbe8c6e66dfa91bdb4c2320a6917979cfe362a0000",
     "17979cfbe8c6e66cfa91bdaee34523fc17979cfe362a0001"}

\* get_or_create_gateway_token, lines 351-362, with the token stored one level too high
StoreToken_AtGateway(config, new_token) ==
    LET c1 == IF IsNone(Get(config, "gateway"))
              THEN SetPath(config, <<"gateway">>, EmptyObj) ELSE config
        c2 == SetPath(c1, <<"gateway", "token">>, Str(new_token))
        c3 == SetPath(c2, <<"gateway", "auth", "mode">>, Str("token"))
    IN  SetPath(c3, <<"gateway", "mode">>, Str("local"))

\* get_or_create_gateway_token, lines 351-362
StoreToken(config, new_token) ==
    LET c1 == IF IsNone(Get(config, "gateway"))
              THEN SetPath(config, <<"gateway">>, EmptyObj) ELSE config
        c2 == IF IsNone(Get(Index(c1, "gateway"), "auth"))
              THEN SetPath(c1, <<"gateway", "auth">>, EmptyObj) ELSE c1
        c3 == SetPath(c2, <<"gateway", "auth", "token">>, Str(new_token))
        c4 == SetPath(c3, <<"gateway", "auth", "mode">>, Str("token"))
    IN  SetPath(c4, <<"gateway", "mode">>, Str("local"))

\* get_or_create_gateway_token
GetOrCreateGatewayToken(new_token, writeOk) ==
    /\ steps < MaxSteps
    /\ LET c      == [cmd |-> "get_or_create_gateway_token", arg |-> Null]
           loaded == load_openclaw_config_raw(cfgFile)
           token  == AsStr(Pointer(loaded.val, "/gateway/auth/token"))
       IN  IF ~loaded.ok THEN Return(c, loaded)
           ELSE IF IsSome(token) /\ token.v # "" THEN Return(c, Ok(token.v))
           ELSE Finish(c, [doc |-> StoreToken(loaded.val, new_token),
                           env |-> envFile, val |-> new_token], writeOk)

\* documents the gateway commands start from
GatewayFull ==
    Obj(("port" :> Num(18789)) @@ ("bind" :> Str("lan"))
        @@ ("trustedProxies" :> Arr(<<Str("10.0.0.1")>>))
        @@ ("reload" :> Obj("mode" :> Str("hot")))
        @@ ("mode" :> Str("local"))
        @@ ("auth" :> Obj(("mode" :> Str("token")) @@ ("token" :> Str("${GW_TOKEN}")))))

GatewayNoToken ==
    Obj(("port" :> Num(18789)) @@ ("bind" :> Null) @@ ("auth" :> Obj("token" :> Str(""))))

GatewayDocs ==
    {Obj(("gateway" :> g) @@ ("custom" :> Obj("note" :> Str("$${LITERAL}")))) :
        g \in {GatewayFull, GatewayNoToken, Null}}
    \cup {Obj("custom" :> Obj("note" :> Str("$${LITERAL}")))}

\* documents a caller hands to save_config
IncomingDocs ==
    {EmptyObj,
     Obj("gateway" :> Null),
     Obj("gateway" :> Obj(("port" :> Num(9000)) @@ ("bind" :> Null))),
     Obj(("gateway" :> Obj(("port" :> Num(9000)) @@ ("bind" :> Str("loopback"))
                           @@ ("trustedProxies" :> Arr(<<>>)) @@ ("reload" :> EmptyObj)
                           @@ ("auth" :> Obj("token" :> Str("tok-ui")))))
         @@ ("agents" :> Obj("list" :> Arr(<<>>))))}

EnvGateway == ("GW_TOKEN" :> "gw-secret")

InitGateway ==
    \/ \E file \in {Missing, Garbage} : StartFrom(file, EnvGateway)
    \/ \E d \in GatewayDocs : StartFrom(Doc(d), EnvGateway)

NextGateway ==
    \/ \E config \in IncomingDocs, writeOk \in BOOLEAN : SaveConfig(config, writeOk)
    \/ \E new_token \in GeneratedTokens, writeOk \in BOOLEAN :
           GetOrCreateGatewayToken(new_token, writeOk)
    \/ GetConfig

SpecGateway == InitGateway /\ [][NextGateway]_vars

----------------------------------------------------------------------------
(* Every mutating command, on one document *)

\* a save_agents_list that builds the agents object anew around the list
SaveAgentsListBody_FreshAgents(loaded, env, agents_list) ==
    {[doc |-> SetPath(loaded, <<"agents">>, Obj("list" :> agents_list)), env |-> env, val |-> "saved"]}

\* save_agents_list, lines 236-242
SaveAgentsListBody(loaded, env, agents_list) ==
    LET c1 == IF IsNone(AsObject(Get(loaded, "agents")))
              THEN SetPath(loaded, <<"agents">>, EmptyObj) ELSE loaded
    IN  {[doc |-> SetPath(c1, <<"agents", "list">>, agents_list), env |-> env, val |-> "saved"]}

\* save_bindings, lines 265-266
SaveBindingsBody(loaded, env, bindings) ==
    {[doc |-> SetPath(loaded, <<"bindings">>, bindings), env |-> env, val |-> "saved"]}

SaveAgentsList(agents_list, writeOk) ==
    Mutate([cmd |-> "save_agents_list", arg |-> agents_list],
           SaveAgentsListBody(Loaded.val, envFile, agents_list), writeOk)

SaveBindings(bindings, writeOk) ==
    Mutate([cmd |-> "save_bindings", arg |-> bindings],
           SaveBindingsBody(Loaded.val, envFile, bindings), writeOk)

\* a document with a variable reference in every section
GatewayRaw == Obj(Insert(GatewayFull.v, "bind", Str("${GW_BIND}")))

BindingsRaw ==
    Arr(<<Binding("main", "telegram", "default"), Binding("${AGENT}", "discord", "d1")>>)

AgentsListRaw == Arr(<<Obj(("id" :> Str("main")) @@ ("workspace" :> Str("${WS_DIR}/main")))>>)

FullDoc(g) ==
    SetPath(Obj(ProviderDoc(Str("openai/gpt-4o")).v @@ ChannelBase.v
                @@ ("gateway" :> g) @@ ("bindings" :> BindingsRaw)),
            <<"agents", "list">>, AgentsListRaw)

FullDocs == {FullDoc(GatewayRaw), FullDoc(GatewayNoToken)}

EnvFull ==
    EnvPlain @@ EnvGateway @@ ("GW_BIND" :> "lan") @@ ("AGENT" :> "agent-7")
    @@ ("WS_DIR" :> "/srv/ws")

\* what callers pass: the second document is what get_config returned, sent back
FullIncoming ==
    {Obj("agents" :> Obj("list" :> Arr(<<>>))),
     Obj("gateway" :> Obj(("port" :> Num(9000))
                          @@ ("auth" :> Obj("token" :> Str("gw-secret")))))}

AgentsLists == {Arr(<<>>), Arr(<<Obj("id" :> Str("helper"))>>)}

FullProviderArgs ==
    {ProviderArg("openai", None, <<NewModel("gpt-4o")>>),
     ProviderArg("openai", Str("sk-new"), <<NewModel("gpt-5")>>),
     ProviderArg("open", Str(""), <<>>)}

FullChannelArgs ==
    {[id |-> "telegram", config |-> ("botToken" :> Str("tok1")) @@ ("userId" :> Str("42")),
      accounts |-> None],
     [id |-> "discord", config |-> ("token" :> Str("tok2")),
      accounts |-> Obj("acc1" :> Obj("agentId" :> Str("agentX")))]}

Init ==
    \/ StartFrom(Missing, EnvFull)
    \/ \E d \in FullDocs : StartFrom(Doc(d), EnvFull)

Next ==
    \/ \E config \in FullIncoming, writeOk \in BOOLEAN : SaveConfig(config, writeOk)
    \/ \E agents_list \in AgentsLists, writeOk \in BOOLEAN : SaveAgentsList(agents_list, writeOk)
    \/ \E writeOk \in BOOLEAN : SaveBindings(BindingsFlat, writeOk)
    \/ \E new_token \in GeneratedTokens, writeOk \in BOOLEAN :
           GetOrCreateGatewayToken(new_token, writeOk)
    \/ \E p \in FullProviderArgs, writeOk \in BOOLEAN : SaveProvider(p, writeOk)
    \/ \E name \in {"openai", "open"}, writeOk \in BOOLEAN : DeleteProvider(name, writeOk)
    \/ \E writeOk \in BOOLEAN : SetPrimaryModel("open/m1", writeOk)
    \/ \E writeOk \in BOOLEAN : AddAvailableModel("openai/gpt-4o", writeOk)
    \/ \E writeOk \in BOOLEAN : RemoveAvailableModel("open/m1", writeOk)
    \/ \E channel \in FullChannelArgs, writeOk \in BOOLEAN : SaveChannelConfig(channel, writeOk)
    \/ \E id \in ChannelIds, writeOk \in BOOLEAN : ClearChannelConfig(id, writeOk)
    \/ GetConfig

Spec == Init /\ [][Next]_vars

----------------------------------------------------------------------------
(* Handlers that run at the same time: each connection is its own task, and
   a handler reads the file, builds its document and writes it, with no lock *)

Handlers == {1, 2}

\* get_or_create_gateway_token after its load: nothing to save when a token is there
TokenBody(loaded, env) ==
    LET token == AsStr(Pointer(loaded, "/gateway/auth/token"))
    IN  IF IsSome(token) /\ token.v # "" THEN {}
        ELSE {[doc |-> StoreToken(loaded, t), env |-> env, val |-> t] : t \in GeneratedTokens}

\* the documents a command may build from the document it loaded
Outcomes(c, loaded, env) ==
    CASE c.cmd = "save_provider"       -> SaveProviderBody(loaded, env, c.arg)
      [] c.cmd = "set_primary_model"   -> SetPrimaryModelBody(loaded, env, c.arg)
      [] c.cmd = "save_agents_list"    -> SaveAgentsListBody(loaded, env, c.arg)
      [] c.cmd = "save_bindings"       -> SaveBindingsBody(loaded, env, c.arg)
      [] c.cmd = "save_channel_config" -> SaveChannelBody(loaded, env, c.arg)
      [] c.cmd = "get_or_create_gateway_token" -> TokenBody(loaded, env)

\* handler h runs command c up to its save: it loads the file and builds its
\* document; a failed load, or a token that is already there, ends the handler
Load(h, c) ==
    /\ steps < MaxSteps
    /\ pc[h] = "idle"
    /\ steps' = steps + 1
    /\ IF ~Loaded.ok \/ Outcomes(c, Loaded.val, envFile) = {}
       THEN UNCHANGED <<envFile, pc, local>>
       ELSE \E o \in Outcomes(c, Loaded.val, envFile) :
               /\ envFile' = o.env
               /\ pc' = [pc EXCEPT ![h] = "loaded"]
               /\ local' = [local EXCEPT ![h] = [call |-> c, at |-> Len(order),
                                                  doc |-> o.doc, val |-> o.val]]
    /\ UNCHANGED <<cfgFile, call, ret, pre, init, order, webVars>>

\* a handler that loads the file again when it saves
StoredDocument_Reloaded(h) ==
    (CHOOSE o \in Outcomes(local[h].call, Loaded.val, envFile) : TRUE).doc

\* save_openclaw_config(&config): the document the handler built from its own load
StoredDocument(h) == local[h].doc

\* handler h saves
Store(h, writeOk) ==
    /\ pc[h] = "loaded"
    /\ pc' = [pc EXCEPT ![h] = "idle"]
    /\ local' = [local EXCEPT ![h] = Null]
    /\ IF StoredDocument(h).t = "panic" \/ ~writeOk
       THEN UNCHANGED <<cfgFile, order>>
       ELSE /\ cfgFile' = save_openclaw_config(cfgFile, StoredDocument(h), writeOk)
            /\ order' = Append(order, [handler |-> h, call |-> local[h].call,
                                       at |-> local[h].at, doc |-> StoredDocument(h),
                                       val |-> local[h].val])
    /\ UNCHANGED <<envFile, call, ret, pre, init, steps, webVars>>

ConcCalls ==
    {[cmd |-> "save_provider", arg |-> ProviderArg("open", Str("sk-2"), <<NewModel("m9")>>)],
     [cmd |-> "set_primary_model", arg |-> "open/m1"],
     [cmd |-> "save_agents_list", arg |-> Arr(<<Obj("id" :> Str("helper"))>>)],
     [cmd |-> "save_bindings", arg |-> BindingsFlat],
     [cmd |-> "save_channel_config",
      arg |-> [id |-> "discord", config |-> ("token" :> Str("tok2")), accounts |-> None]],
     [cmd |-> "get_or_create_gateway_token", arg |-> Null]}

InitConc ==
    \/ StartFrom(Missing, EnvFull)
    \/ \E d \in FullDocs : StartFrom(Doc(d), EnvFull)

NextConc ==
    \/ \E h \in Handlers, c \in ConcCalls : Load(h, c)
    \/ \E h \in Handlers, writeOk \in BOOLEAN : Store(h, writeOk)

SpecConc == InitConc /\ [][NextConc]_vars

----------------------------------------------------------------------------
(* The web server: the administrator account, sessions and /api/invoke
   (src-tauri/src/web_server.rs) *)

Some(x) == [t |-> "some", v |-> x]

HexDigit(d) == Chr("0123456789abcdef", d + 1)

RECURSIVE Hex(_)
\* format!("{:x}", n): lower-case hexadecimal, no leading zero
Hex(n) == IF n < 16 THEN HexDigit(n) ELSE Hex(n \div 16) \o HexDigit(n % 16)

\* Duration::as_secs: the clock's units in one second (10^9 in the program;
\* the model's clock is coarser)
NANOS_PER_SEC == 2

\* SESSION_TTL_SECONDS (60 * 60 * 8 in the program, on the model's coarser clock)
SESSION_TTL_SECONDS == 2

\* now_nanos()
now_nanos == clock

\* now_ts()
now_ts == clock \div NANOS_PER_SEC

MaxRequests == 3

MaxClock == 18

\* derive_password_hash: the text "<salt>:<password>" that is hashed; the
\* 20,000 rounds of FNV-1a are left out, so the digest is modelled by the
\* text it is computed from
derive_password_hash(salt, password) == salt \o ":" \o password

\* new_salt()
new_salt == Hex(now_nanos)

\* a token made of the clock alone
new_session_token_ClockOnly(next) == Hex(now_nanos)

\* new_session_token, given what counter.fetch_add(1) returned
new_session_token(next) == Hex(now_nanos) \o Hex(next)

\* load_auth_config: Ok(None) when the file does not exist
load_auth_config(file) == Ok(file)

\* a session that never expires
SessionValid_NoExpiry(token) == token \in DOMAIN sessions

\* api_invoke lines 747-751, auth_me lines 731-732: the token is in the map and
\* its session has not expired
SessionValid(token) ==
    /\ token \in DOMAIN sessions
    /\ sessions[token].expires_at > now_ts

\* a request body that is not the JSON the handler expects (parse_json fails)
BadJson == [t |-> "bad", v |-> 0]

\* the response of a handler that touched neither the config file nor a
\* concurrent handler: c is the request, status the HTTP status
Respond(c, status, val) ==
    /\ steps' = steps + 1
    /\ call' = c
    /\ ret' = [ok |-> status = 200, val |-> val, status |-> status, dispatched |-> FALSE]
    /\ pre' = [cfg |-> cfgFile, env |-> envFile, auth |-> authFile, at |-> clock]
    /\ UNCHANGED <<envFile, init, clock>>

\* auth_login
AuthLogin(payload) ==
    /\ steps < MaxRequests
    /\ LET c     == [cmd |-> "auth_login", arg |-> payload, cookie |-> None]
           auth  == load_auth_config(authFile).val
           token == new_session_token(session_counter)
       IN  IF payload = BadJson
           THEN Respond(c, 400, "bad request") /\ UNCHANGED <<sessions, session_counter>>
           ELSE IF IsNone(auth)
           THEN Respond(c, 412, "setup first") /\ UNCHANGED <<sessions, session_counter>>
           ELSE IF auth.v.username # payload.v.username
                   \/ derive_password_hash(auth.v.salt, payload.v.password)
                          # auth.v.password_hash
           THEN Respond(c, 401, "wrong credentials") /\ UNCHANGED <<sessions, session_counter>>
           ELSE /\ session_counter' = session_counter + 1
                /\ sessions' = Insert(sessions, token,
                                      [username |-> auth.v.username,
                                       expires_at |-> now_ts + SESSION_TTL_SECONDS])
                /\ Respond(c, 200, token)
    /\ UNCHANGED <<cfgFile, pc, local, order, authFile, loggedOut>>

\* auth_logout: cookie is what get_cookie found in the request
AuthLogout(cookie) ==
    /\ steps < MaxRequests
    /\ Respond([cmd |-> "auth_logout", arg |-> Null, cookie |-> cookie], 200, "deleted")
    /\ IF IsSome(cookie)
       THEN /\ sessions' = Remove(sessions, cookie.v)
            /\ loggedOut' = loggedOut \cup {cookie.v}
       ELSE UNCHANGED <<sessions, loggedOut>>
    /\ UNCHANGED <<cfgFile, pc, local, order, authFile, session_counter>>

\* auth_me
AuthMe(cookie) ==
    /\ steps < MaxRequests
    /\ LET c == [cmd |-> "auth_me", arg |-> Null, cookie |-> cookie]
       IN  IF IsSome(cookie) /\ SessionValid(cookie.v)
           THEN Respond(c, 200, sessions[cookie.v].username)
           ELSE Respond(c, 401, "not logged in")
    /\ UNCHANGED <<cfgFile, pc, local, order, webVars>>

\* dispatch_command, for the command the model sends ("set_primary_model",
\* lines 870-873) and for a name that is no command (the last arm): the
\* document to store, or None when nothing is stored, and the result
dispatch_command(command, args, writeOk) ==
    IF command # "set_primary_model"
    THEN {[doc |-> None, res |-> Err("unknown command")]}
    ELSE LET model_id == require_string(args, "modelId")
         IN  IF ~model_id.ok THEN {[doc |-> None, res |-> model_id]}
             ELSE IF ~Loaded.ok THEN {[doc |-> None, res |-> Loaded]}
             ELSE {[doc |-> IF writeOk THEN Some(o.doc) ELSE None,
                    res |-> IF writeOk THEN Ok(o.val) ELSE Err("write failed")] :
                   o \in SetPrimaryModelBody(Loaded.val, envFile, model_id.val)}

\* api_invoke; ret.dispatched tells whether dispatch_command was called
ApiInvoke(cookie, payload, writeOk) ==
    /\ steps < MaxRequests
    /\ LET c == [cmd |-> "api_invoke", arg |-> payload, cookie |-> cookie]
           refuse(status) ==
               /\ Respond(c, status, "refused")
               /\ UNCHANGED cfgFile
       IN  IF IsNone(cookie) \/ ~SessionValid(cookie.v) THEN refuse(401)
           ELSE IF payload = BadJson THEN refuse(400)
           ELSE IF Trim(payload.v.cmd) = "" THEN refuse(400)
           ELSE \E d \in dispatch_command(Trim(payload.v.cmd), payload.v.args, writeOk) :
                   /\ steps' = steps + 1
                   /\ call' = c
                   /\ pre' = [cfg |-> cfgFile, env |-> envFile, auth |-> authFile, at |-> clock]
                   /\ ret' = [ok |-> d.res.ok, val |-> d.res.val,
                              status |-> IF d.res.ok THEN 200 ELSE 400,
                              dispatched |-> TRUE]
                   /\ cfgFile' = IF IsSome(d.doc)
                                 THEN save_openclaw_config(cfgFile, d.doc.v, TRUE)
                                 ELSE cfgFile
                   /\ UNCHANGED <<envFile, init, clock>>
    /\ UNCHANGED <<pc, local, order, webVars>>

\* auth_setup up to its load_auth_config (lines 636-661): the request is
\* refused, or the handler holds the AuthConfig it is about to save.  Each
\* connection is a task of its own (main, lines 144-149) and nothing is held
\* between the load and the save.
SetupCheck(h, payload) ==
    /\ steps < MaxRequests
    /\ pc[h] = "idle"
    /\ LET c    == [cmd |-> "auth_setup", arg |-> payload, cookie |-> None, handler |-> h]
           auth == load_auth_config(authFile).val
       IN  IF payload = BadJson THEN Respond(c, 400, "bad request") /\ UNCHANGED <<pc, local>>
           ELSE IF Trim(payload.v.username) = ""
           THEN Respond(c, 400, "empty username") /\ UNCHANGED <<pc, local>>
           ELSE IF Len(payload.v.password) < 8
           THEN Respond(c, 400, "short password") /\ UNCHANGED <<pc, local>>
           ELSE IF IsSome(auth)
           THEN Respond(c, 409, "already set up") /\ UNCHANGED <<pc, local>>
           ELSE /\ steps' = steps + 1
                /\ pc' = [pc EXCEPT ![h] = "loaded"]
                /\ local' = [local EXCEPT ![h] =
                       [call |-> c,
                        config |-> [username |-> payload.v.username,
                                    salt |-> new_salt,
                                    password_hash |->
                                        derive_password_hash(new_salt, payload.v.password),
                                    created_at |-> now_ts]]]
                /\ UNCHANGED <<call, ret, pre, envFile, init, clock>>
    /\ UNCHANGED <<cfgFile, order, webVars>>

\* save_auth_config(&state.auth_config_path, &config), line 663: the handler's
\* own AuthConfig replaces the file
SetupStored(h) == Some(local[h].config)

\* auth_setup from its save on (lines 663-667)
SetupSave(h, writeOk) ==
    /\ pc[h] = "loaded"
    /\ pc' = [pc EXCEPT ![h] = "idle"]
    /\ local' = [local EXCEPT ![h] = Null]
    /\ call' = local[h].call
    /\ pre' = [cfg |-> cfgFile, env |-> envFile, auth |-> authFile, at |-> clock]
    /\ authFile' = write_file(authFile, SetupStored(h), writeOk)
    /\ ret' = [ok |-> writeOk, val |-> IF writeOk THEN "set up" ELSE "write failed",
               status |-> IF writeOk THEN 200 ELSE 500, dispatched |-> FALSE]
    /\ order' = IF writeOk
                THEN Append(order, [handler |-> h, config |-> local[h].config])
                ELSE order
    /\ UNCHANGED <<cfgFile, envFile, init, steps, sessions, session_counter, clock, loggedOut>>

\* time passes
Tick ==
    /\ clock < MaxClock
    /\ clock' = clock + 1
    /\ UNCHANGED <<cfgFile, envFile, call, ret, pre, init, steps, pc, local, order,
                   authFile, sessions, session_counter, loggedOut>>

Credentials(username, password) == Some([username |-> username, password |-> password])

SetupPayloads ==
    {BadJson, Credentials("admin", "password1"), Credentials("owner", "password2"),
     Credentials(" ", "password1"), Credentials("admin", "short")}

LoginPayloads ==
    {BadJson, Credentials("admin", "password1"), Credentials("admin", "password2"),
     Credentials("owner", "password1")}

InvokePayloads ==
    {BadJson,
     Some([cmd |-> " ", args |-> Null]),
     Some([cmd |-> " set_primary_model ", args |-> Str("open/m1")]),
     Some([cmd |-> "set_primary_model", args |-> Null]),
     Some([cmd |-> "no_such_command", args |-> Null])}

\* what a request's cookie header may carry: nothing, a token that was never
\* issued, the value logout sets, or a token the server has issued
Cookies ==
    {None, Str("deleted")}
    \cup {Str(t) : t \in DOMAIN sessions} \cup {Str(t) : t \in loggedOut}

\* an account that an earlier run of the server has set up
AdminAccount ==
    [username |-> "admin", salt |-> "9",
     password_hash |-> derive_password_hash("9", "password1"), created_at |-> 4]

InitAuth ==
    /\ cfgFile = Doc(ProviderDoc(Null))
    /\ envFile = EnvPlain
    /\ init = cfgFile
    /\ authFile \in {None, Some(AdminAccount)}
    /\ clock = 15
    /\ pre = [cfg |-> cfgFile, env |-> envFile, auth |-> authFile, at |-> clock]
    /\ call = NoCall
    /\ ret = Ok("")
    /\ steps = 0
    /\ pc = Idle
    /\ local = [p \in {1, 2} |-> Null]
    /\ order = <<>>
    /\ sessions = <<>>
    /\ session_counter = 1
    /\ loggedOut = {}

NextAuth ==
    \/ \E h \in Handlers, payload \in SetupPayloads : SetupCheck(h, payload)
    \/ \E h \in Handlers, writeOk \in BOOLEAN : SetupSave(h, writeOk)
    \/ \E payload \in LoginPayloads : AuthLogin(payload)
    \/ \E cookie \in Cookies : AuthLogout(cookie)
    \/ \E cookie \in Cookies : AuthMe(cookie)
    \/ \E cookie \in Cookies, payload \in InvokePayloads, writeOk \in BOOLEAN :
           ApiInvoke(cookie, payload, writeOk)
    \/ Tick

SpecAuth == InitAuth /\ [][NextAuth]_vars

----------------------------------------------------------------------------

(* Parsing the text of the config file *)

IsIdentStart(c) ==
    \/ c \in {"_", "$"}
    \/ \E i \in 1..26 : Chr(LowerCase, i) = c \/ Chr(UpperCase, i) = c

RECURSIVE SkipBlank(_, _, _)
\* the position of the first character at or after i that is neither white
\* space nor, when comments are allowed, part of a // comment
SkipBlank(text, i, comments) ==
    IF i > Len(text) THEN i
    ELSE IF IsWhitespace(Chr(text, i)) THEN SkipBlank(text, i + 1, comments)
    ELSE IF comments /\ StartsWith(SubSeq(text, i, Len(text)), "//")
    THEN LET nl == Find(SubSeq(text, i, Len(text)), "\n")
         IN  IF nl = 0 THEN Len(text) + 1 ELSE SkipBlank(text, i + nl, comments)
    ELSE i

RECURSIVE ScanWhile(_, _, _)
\* the position after the run of digits (digits = TRUE) or of identifier
\* characters that starts at i
ScanWhile(text, i, digits) ==
    IF i > Len(text) THEN i
    ELSE IF IsDigit(Chr(text, i)) \/ (~digits /\ IsIdentStart(Chr(text, i)))
    THEN ScanWhile(text, i + 1, digits)
    ELSE i

Parsed(val, next) == [ok |-> TRUE, val |-> val, next |-> next]
Rejected(msg)     == [ok |-> FALSE, val |-> msg, next |-> 0]

\* a string in the quotes q that opens at i: its content and the position after it
QuotedAt(text, i, q) ==
    LET close == Find(SubSeq(text, i + 1, Len(text)), q)
    IN  IF close = 0 THEN Rejected("unterminated string")
        ELSE Parsed(SubSeq(text, i + 1, i + close - 1), i + close + 1)

\* the key of a member at i: a string in double quotes, and with json5 a
\* string in single quotes or an identifier
KeyAt(text, i, json5) ==
    IF i > Len(text) THEN Rejected("unexpected end of input")
    ELSE IF Chr(text, i) = "\"" THEN QuotedAt(text, i, "\"")
    ELSE IF json5 /\ Chr(text, i) = "'" THEN QuotedAt(text, i, "'")
    ELSE IF json5 /\ IsIdentStart(Chr(text, i))
    THEN Parsed(SubSeq(text, i, ScanWhile(text, i, FALSE) - 1), ScanWhile(text, i, FALSE))
    ELSE Rejected("expected a key")

RECURSIVE ValueAt(_, _, _), MembersAt(_, _, _, _, _), ElementsAt(_, _, _, _, _)
\* the value that starts at i
ValueAt(text, i, json5) ==
    LET rest == SubSeq(text, i, Len(text))
        c    == Chr(text, i)
        s    == QuotedAt(text, i, c)
        stop == ScanWhile(text, i, TRUE)
    IN  IF i > Len(text) THEN Rejected("unexpected end of input")
        ELSE IF c = "{" THEN MembersAt(text, i + 1, json5, <<>>, "open")
        ELSE IF c = "[" THEN ElementsAt(text, i + 1, json5, <<>>, "open")
        ELSE IF c = "\"" \/ (json5 /\ c = "'")
        THEN IF s.ok THEN Parsed(Str(s.val), s.next) ELSE s
        ELSE IF IsDigit(c)
        THEN IF ParseIndex(SubSeq(text, i, stop - 1)) < 0 THEN Rejected("invalid number")
             ELSE Parsed(Num(ParseIndex(SubSeq(text, i, stop - 1))), stop)
        ELSE IF StartsWith(rest, "true") THEN Parsed(Bool(TRUE), i + 4)
        ELSE IF StartsWith(rest, "false") THEN Parsed(Bool(FALSE), i + 5)
        ELSE IF StartsWith(rest, "null") THEN Parsed(Null, i + 4)
        ELSE Rejected("expected a value")

\* the members of an object from i on; state is "open" after '{', "comma"
\* after a ',' and "member" after a member
MembersAt(text, i, json5, acc, state) ==
    LET j   == SkipBlank(text, i, json5)
        key == KeyAt(text, j, json5)
        col == SkipBlank(text, key.next, json5)
        val == ValueAt(text, SkipBlank(text, col + 1, json5), json5)
    IN  IF j > Len(text) THEN Rejected("unexpected end of input")
        ELSE IF Chr(text, j) = "}"
        THEN IF state = "comma" /\ ~json5 THEN Rejected("trailing comma")
             ELSE Parsed(Obj(acc), j + 1)
        ELSE IF state = "member"
        THEN IF Chr(text, j) = "," THEN MembersAt(text, j + 1, json5, acc, "comma")
             ELSE Rejected("expected ',' or '}'")
        ELSE IF ~key.ok THEN key
        ELSE IF col > Len(text) \/ Chr(text, col) # ":" THEN Rejected("expected ':'")
        ELSE IF ~val.ok THEN val
        ELSE MembersAt(text, val.next, json5, Insert(acc, key.val, val.val), "member")

\* the elements of an array from i on, with the states of MembersAt
ElementsAt(text, i, json5, acc, state) ==
    LET j   == SkipBlank(text, i, json5)
        val == ValueAt(text, j, json5)
    IN  IF j > Len(text) THEN Rejected("unexpected end of input")
        ELSE IF Chr(text, j) = "]"
        THEN IF state = "comma" /\ ~json5 THEN Rejected("trailing comma")
             ELSE Parsed(Arr(acc), j + 1)
        ELSE IF state = "member"
        THEN IF Chr(text, j) = "," THEN ElementsAt(text, j + 1, json5, acc, "comma")
             ELSE Rejected("expected ',' or ']'")
        ELSE IF ~val.ok THEN val
        ELSE ElementsAt(text, val.next, json5, Append(acc, val.val), "member")

\* one value with nothing but blanks around it
DocumentOf(text, json5) ==
    LET val == ValueAt(text, SkipBlank(text, 1, json5), json5)
    IN  IF ~val.ok THEN val
        ELSE IF SkipBlank(text, val.next, json5) <= Len(text) THEN Rejected("trailing characters")
        ELSE val

\* json5::from_str::<Value>: comments, trailing commas, unquoted keys and
\* strings in single quotes are accepted
json5_from_str(content) ==
    LET r == DocumentOf(content, TRUE)
    IN  IF r.ok THEN Ok(r.val) ELSE Err("json5: " \o r.val)

\* serde_json::from_str::<Value>: strict JSON
serde_json_from_str(content) ==
    LET r == DocumentOf(content, FALSE)
    IN  IF r.ok THEN Ok(r.val) ELSE Err("serde_json: " \o r.val)

\* the marker every parse error of the config file starts with
ParseFailed == "JSON/JSON5 parse failed"

\* a parser that knows strict JSON only
parse_openclaw_config_content_JsonOnly(content) ==
    LET json == serde_json_from_str(content)
    IN  IF json.ok THEN json
        ELSE Err(ParseFailed \o ": JSON5 error: " \o json.val \o "; JSON error: " \o json.val)

\* parse_openclaw_config_content: JSON5 first, strict JSON when JSON5 rejects
\* the text, and one error with both messages when both do
parse_openclaw_config_content(content) ==
    LET json5 == json5_from_str(content)
        json  == serde_json_from_str(content)
    IN  IF json5.ok THEN json5
        ELSE IF json.ok THEN json
        ELSE Err(ParseFailed \o ": JSON5 error: " \o json5.val \o "; JSON error: " \o json.val)

\* texts of a config file with gateway.auth.token and gateway.port in it: with
\* and without a comment, keys in double quotes, in single quotes and bare,
\* several values for the token (one of them missing), with and without
\* trailing commas, closed, not closed and with something behind the end
Openings == {"{", "{ // the gateway\n  "}

KeyStyles == {"\"", "'", ""}

TokenTexts == {"\"t1\"", "'t1'", "42", "null", "", "[1, \"a\",]", "[true, false]"}

Commas == {"", ","}

Endings == {"}", "", "} x"}

ConfigText(open, q, token, comma, end) ==
    open \o q \o "gateway" \o q \o ": {" \o q \o "auth" \o q \o ": { " \o q \o "token" \o q \o ": "
         \o token \o comma \o " }, " \o q \o "port" \o q \o ": 18789" \o comma \o "\n}" \o comma \o end

ConfigTexts ==
    {ConfigText(open, q, token, comma, end) :
        open \in Openings, q \in KeyStyles, token \in TokenTexts, comma \in Commas, end \in Endings}
        \cup {"", "  ", "7", "\"text\"", "[]", "{}", "{ gateway: { auth: { token: } } }"}

InitParse == \E text \in ConfigTexts : StartFrom([kind |-> "text", doc |-> text], EnvPlain)

\* the text of the file is parsed
ParseContent ==
    /\ steps = 0
    /\ Return([cmd |-> "parse", arg |-> cfgFile.doc], parse_openclaw_config_content(cfgFile.doc))

NextParse ==
    \/ ParseContent

SpecParse == InitParse /\ [][NextParse]_vars

----------------------------------------------------------------------------
(* Reading the text of the env file *)

RECURSIVE Lines(_)
\* str::lines(): the pieces between line feeds, a carriage return in front of
\* a line feed dropped, no empty piece after the last line feed
Lines(content) ==
    LET nl   == Find(content, "\n")
        raw  == IF nl = 0 THEN content ELSE SubSeq(content, 1, nl - 1)
        line == IF raw # "" /\ Chr(raw, Len(raw)) = "\r" THEN SubSeq(raw, 1, Len(raw) - 1) ELSE raw
    IN  IF content = "" THEN <<>>
        ELSE IF nl = 0 THEN <<line>>
        ELSE <<line>> \o Lines(SubSeq(content, nl + 1, Len(content)))

RECURSIVE TrimMatches(_, _)
\* str::trim_matches(char): every c at the front and at the back is taken off
TrimMatches(s, c) ==
    IF s = "" THEN s
    ELSE IF Chr(s, 1) = c THEN TrimMatches(SubSeq(s, 2, Len(s)), c)
    ELSE IF Chr(s, Len(s)) = c THEN TrimMatches(SubSeq(s, 1, Len(s) - 1), c)
    ELSE s

\* line.strip_prefix("export ").unwrap_or(line)
StripExport(line) ==
    IF StartsWith(line, "export ") THEN SubSeq(line, 8, Len(line)) ELSE line

\* what one line of the env file adds to vars, lines 50-62
EnvLineVars(acc, raw) ==
    LET line  == Trim(raw)
        kv    == SplitOnce(StripExport(line), "=")
        key   == Trim(kv[1])
        value == TrimMatches(TrimMatches(Trim(kv[2]), "\""), "'")
    IN  IF line = "" \/ StartsWith(line, "#") THEN acc
        ELSE IF kv = <<>> THEN acc
        ELSE IF key = "" THEN acc
        ELSE Insert(acc, key, value)

RECURSIVE EnvVarsFrom(_, _)
EnvVarsFrom(lines, acc) ==
    IF lines = <<>> THEN acc ELSE EnvVarsFrom(Tail(lines), EnvLineVars(acc, Head(lines)))

NoEnvFile == [kind |-> "missing", text |-> ""]

EnvText(content) == [kind |-> "text", text |-> content]

\* load_env_file_vars on the text of the env file: a file that cannot be
\* read gives no variables
load_env_file_text(file) ==
    IF file.kind = "missing" THEN <<>> ELSE EnvVarsFrom(Lines(file.text), <<>>)

\* lines of an env file: blank, comment, plain, with export and blanks around
\* the parts, values in double and in single quotes, a quote that is not
\* closed, two layers of quotes, one kind of quote inside the other, no key,
\* no '=', a key given before, a value with '=' in it, a line with a carriage
\* return
EnvLines ==
    {"", "  # A=0", "A=1", "export B = two words ", "C=\"x y\"", "D=' q '", "E=\"open",
     "F=\"\"dd\"\"", "G='\"in\"'", "H=\"'in'\"", "=nokey", "novalue", "A=2", "I=a=b", "J=\"\r"}

MaxLines == 2

RECURSIVE JoinLines(_)
JoinLines(q) == IF q = <<>> THEN "" ELSE Head(q) \o "\n" \o JoinLines(Tail(q))

EnvTexts == {JoinLines(q) : q \in UNION {[1..n -> EnvLines] : n \in 0..MaxLines}}

InitEnv ==
    \/ StartFrom(Missing, NoEnvFile)
    \/ \E content \in EnvTexts : StartFrom(Missing, EnvText(content))

\* the env file is read
LoadEnvFile ==
    /\ steps = 0
    /\ Return([cmd |-> "load_env_file_vars", arg |-> Null], Ok(load_env_file_text(envFile)))

NextEnv ==
    \/ LoadEnvFile

SpecEnv == InitEnv /\ [][NextEnv]_vars

----------------------------------------------------------------------------
(* Reading: documents whose strings are put together from pieces of text *)

\* OPENAI_KEY is defined in the process environment and in the env file
EnvRead == ("TG_TOKEN" :> "tg-secret") @@ ("OPENAI_KEY" :> "sk-file")

\* pieces that may stand anywhere in a string
BodyPieces ==
    {"ab", "}", "$", "$5", "{x}", "$${TG_TOKEN}", "$${ x y }",
     "${TG_TOKEN}", "${OPENAI_KEY}", "${ TG_TOKEN }", "${NOPE}", "${ }"}

\* pieces with an opening that is never closed: they end a string
TailPieces == {"${TG_TOKEN", "$${x"}

MaxPieces == 2

\* a '$' in front of a piece that starts with '{' or is a closed ${...} would
\* make another form of the two together
JoinsCleanly(a, b) ==
    ~(a = "$" /\ (StartsWith(b, "{") \/ (StartsWith(b, "${") /\ b \in BodyPieces)))

PieceSeqs ==
    {q \in UNION {[1..n -> BodyPieces \cup TailPieces] : n \in 0..MaxPieces} :
        /\ \A i \in 1..(Len(q) - 1) : q[i] \in BodyPieces /\ JoinsCleanly(q[i], q[i + 1])}

RECURSIVE Text(_)
Text(q) == IF q = <<>> THEN "" ELSE Head(q) \o Text(Tail(q))

\* a document as the manager's own commands lay it out, with two strings to choose
ReadDoc(s1, s2) ==
    Obj(("models" :> Obj("providers" :> Obj("openai" :>
            Obj(("baseUrl" :> Str("https://api.example.com/v1")) @@ ("apiKey" :> Str(s1))
                @@ ("models" :> Arr(<<StoredModel("gpt-4o"), Obj("id" :> Num(1))>>))))))
        @@ ("agents" :> Obj(("defaults" :> Obj(("models" :> Obj("openai/gpt-4o" :> EmptyObj))
                                               @@ ("model" :> Obj("primary" :> Str("openai/gpt-4o")))))
                            @@ ("list" :> Arr(<<Obj(("id" :> Str("main")) @@ ("workspace" :> Str(s2))),
                                                Num(7), Null, Bool(FALSE)>>))))
        @@ ("channels" :> Obj("telegram" :> Obj(("enabled" :> Bool(TRUE)) @@ ("botToken" :> Str(s1)))))
        @@ ("bindings" :> BindingsArray)
        @@ ("${TG_TOKEN}" :> Obj("${NOPE}" :> Num(1))))

\* the workspace is plain with every string, and has a reference with the short ones
ReadDocs ==
    {ReadDoc(Text(q), "/srv/main") : q \in PieceSeqs}
        \cup {ReadDoc(Text(q), "${TG_TOKEN}/main") : q \in {p \in PieceSeqs : Len(p) <= 1}}

\* a read command is run once on the document it finds
InitRead == \E d \in ReadDocs : StartFrom(Doc(d), EnvRead)

ReadConfig ==
    /\ steps = 0
    /\ Return([cmd |-> "get_config", arg |-> Null], load_openclaw_config(cfgFile, envFile))

\* get_agents_list: /agents/list of the substituted document, or []
get_agents_list(file, env) ==
    LET loaded == load_openclaw_config(file, env)
    IN  IF ~loaded.ok THEN loaded
        ELSE Ok(UnwrapOr(Pointer(loaded.val, "/agents/list"), Arr(<<>>)))

\* a get_bindings that reads the document as it stands on disk
get_bindings_Raw(file, env) ==
    LET loaded == load_openclaw_config_raw(file)
    IN  IF ~loaded.ok THEN loaded
        ELSE Ok(UnwrapOr(Get(loaded.val, "bindings"), EmptyObj))

\* get_bindings: bindings of the substituted document, or {}
get_bindings(file, env) ==
    LET loaded == load_openclaw_config(file, env)
    IN  IF ~loaded.ok THEN loaded
        ELSE Ok(UnwrapOr(Get(loaded.val, "bindings"), EmptyObj))

\* v.as_u64().map(|n| n as u32): n as u32 keeps every n below 2^32, and the
\* numbers of this model are all below 2^31
AsU32(x) == IF x.t = "num" /\ x.v >= 0 THEN x ELSE None

\* key.len() > 8: the first four and the last four characters around "..."
MaskKey(key) ==
    IF Len(key) > 8 THEN SubSeq(key, 1, 4) \o "..." \o SubSeq(key, Len(key) - 3, Len(key))
    ELSE "****"

\* the ConfiguredModel of one element of a provider's models array
ConfiguredModelOf(provider_name, primary_model, m) ==
    LET id      == Get(m, "id").v
        full_id == provider_name \o "/" \o id
    IN  [full_id        |-> full_id,
         id             |-> id,
         name           |-> UnwrapOr(AsStr(Get(m, "name")), Str(id)).v,
         api_type       |-> AsStr(Get(m, "api")),
         context_window |-> AsU32(Get(m, "contextWindow")),
         max_tokens     |-> AsU32(Get(m, "maxTokens")),
         is_primary     |-> primary_model = Str(full_id)]

\* the ConfiguredProvider of one entry of /models/providers
ConfiguredProviderOf(provider_name, primary_model, provider_config) ==
    LET api_key      == AsStr(Get(provider_config, "apiKey"))
        models_array == AsArray(Get(provider_config, "models"))
        HasId(m)     == IsString(Get(m, "id"))
        kept         == IF IsNone(models_array) THEN <<>> ELSE SelectSeq(models_array.v, HasId)
    IN  [name           |-> provider_name,
         base_url       |-> UnwrapOr(AsStr(Get(provider_config, "baseUrl")), Str("")).v,
         api_key_masked |-> IF IsNone(api_key) THEN None ELSE Str(MaskKey(api_key.v)),
         has_api_key    |-> ~IsNone(api_key),
         models         |-> [i \in 1..Len(kept) |->
                                ConfiguredModelOf(provider_name, primary_model, kept[i])]]

\* get_ai_config: the overview of the substituted document
get_ai_config(file, env) ==
    LET loaded == load_openclaw_config(file, env)
    IN  IF ~loaded.ok THEN loaded
        ELSE LET primary_model == AsStr(Pointer(loaded.val, "/agents/defaults/model/primary"))
                 available     == AsObject(Pointer(loaded.val, "/agents/defaults/models"))
                 providers     == AsObject(Pointer(loaded.val, "/models/providers"))
                 names         == IF IsNone(providers) THEN <<>>
                                  ELSE SortedKeys(DOMAIN providers.v)
             IN  Ok([primary_model        |-> primary_model,
                     configured_providers |->
                         [i \in 1..Len(names) |->
                             ConfiguredProviderOf(names[i], primary_model, providers.v[names[i]])],
                     available_models     |-> IF IsNone(available) THEN <<>>
                                              ELSE SortedKeys(DOMAIN available.v)])

GetAgentsList ==
    /\ steps = 0
    /\ Return([cmd |-> "get_agents_list", arg |-> Null], get_agents_list(cfgFile, envFile))

GetBindings ==
    /\ steps = 0
    /\ Return([cmd |-> "get_bindings", arg |-> Null], get_bindings(cfgFile, envFile))

GetAiConfig ==
    /\ steps = 0
    /\ Return([cmd |-> "get_ai_config", arg |-> Null], get_ai_config(cfgFile, envFile))

NextRead ==
    \/ ReadConfig
    \/ GetAgentsList
    \/ GetBindings
    \/ GetAiConfig
    \/ GetChannelsConfig

SpecRead == InitRead /\ [][NextRead]_vars

----------------------------------------------------------------------------
(* The bindings functions on their own *)

\* elements of a bindings array: well formed, a second agent for a pair that
\* is there, and three malformed ones
ArrayItems ==
    {BindingEntry("telegram", "default", "main"),
     BindingEntry("discord", "d1", "helper"),
     BindingEntry("telegram", "default", "other"),
     Obj("agentId" :> Str("main")),
     Obj(("agentId" :> Num(1))
         @@ ("match" :> Obj(("channel" :> Str("slack")) @@ ("accountId" :> Str("s1"))))),
     Str("main")}

MaxItems == 2

ArrayBindings == {Arr(q) : q \in UNION {[1..n -> ArrayItems] : n \in 0..MaxItems}}

\* keys of a flat object: each separator, two separators in one key, a key
\* that names the same pair with another separator, and a key with none
FlatKeys == {"telegram/default", "telegram:default", "discord.d1", "slack:s1/x", "plain"}

FlatAgent(key) == IF key = "telegram:default" THEN "other" ELSE "main"

FlatBindings == {Obj([k \in S |-> Str(FlatAgent(k))]) : S \in SUBSET FlatKeys}

\* what a channel of a grouped object may hold
GroupedAccounts ==
    {EmptyObj,
     Obj("default" :> Str("main")),
     Obj("default" :> Obj("agentId" :> Str("main"))),
     Obj(("d1" :> Str("helper")) @@ ("d2" :> Num(1)) @@ ("d3" :> Obj("agentId" :> Num(2))))}

GroupedBindings ==
    {Obj([c \in S |-> f[c]]) :
        S \in (SUBSET {"telegram", "discord"}) \ {{}}, f \in [{"telegram", "discord"} -> GroupedAccounts]}

BindingsValues == ArrayBindings \cup FlatBindings \cup GroupedBindings

\* parse, render against the parsed value as the original: one of the values
\* merge_bindings_payload_by_shape may return is the result
RenderParsed(b) ==
    /\ steps < MaxSteps
    /\ \E r \in merge_bindings_payload_by_shape(b, parse_account_bindings(b)) :
           Return([cmd |-> "render_parsed", arg |-> b], Ok(r))

\* originals of a rendering: arrays, values that are no object, objects of
\* strings, objects with a value that is no string
Originals ==
    {Arr(<<>>), BindingsArray, Null, Str("none"), Num(0),
     EmptyObj, BindingsFlat, Obj("plain" :> Str("main")),
     BindingsGrouped, Obj(("telegram/default" :> Str("main")) @@ ("discord" :> EmptyObj)),
     Obj("count" :> Num(1))}

PairUniverse ==
    OnePair("telegram", "default", "main") @@ OnePair("discord", "acc1", "agentX")
    @@ OnePair("telegram", "acc2", "agentY")

PairSets == {[p \in S |-> PairUniverse[p]] : S \in SUBSET DOMAIN PairUniverse}

\* one call of merge_bindings_payload_by_shape
Render(original, pairs) ==
    /\ steps < MaxSteps
    /\ \E r \in merge_bindings_payload_by_shape(original, pairs) :
           Return([cmd |-> "render", arg |-> [original |-> original, pairs |-> pairs]], Ok(r))

\* one call of parse_account_bindings
ParseBindings(b) ==
    /\ steps < MaxSteps
    /\ Return([cmd |-> "parse_bindings", arg |-> b], Ok(parse_account_bindings(b)))

InitBindings == StartFrom(Missing, EnvPlain)

NextBindings ==
    \/ \E b \in BindingsValues \cup Originals : ParseBindings(b)
    \/ \E b \in BindingsValues : RenderParsed(b)
    \/ \E original \in Originals, pairs \in PairSets : Render(original, pairs)

SpecBindings == InitBindings /\ [][NextBindings]_vars

----------------------------------------------------------------------------
(* Properties of the channel commands *)

\* the document a file holds, as a writing handler loads it
RawDoc(file) == IF file.kind = "doc" THEN file.doc ELSE EmptyObj

BindingsOf(file) == Get(RawDoc(file), "bindings")

IsArrayShape(b)   == IsNone(b) \/ ~IsObject(b)
IsFlatShape(b)    == IsObject(b) /\ \A k \in DOMAIN b.v : IsString(b.v[k])
IsGroupedShape(b) == IsObject(b) /\ \A k \in DOMAIN b.v : IsObject(b.v[k])

ChannelWrites == {"save_channel_config", "clear_channel_config"}

\* C1: after any sequence of save_channel_config and clear_channel_config calls
\* the bindings value has the shape it had before the first call (a missing or
\* non-object value counting as array shape).
C1_ShapeKept ==
    (init.kind # "garbage" /\ call.cmd \in ChannelWrites /\ ret.ok) =>
        /\ IsArrayShape(BindingsOf(init))   => IsArray(BindingsOf(cfgFile))
        /\ IsFlatShape(BindingsOf(init))    => IsFlatShape(BindingsOf(cfgFile))
        /\ IsGroupedShape(BindingsOf(init)) => IsGroupedShape(BindingsOf(cfgFile))

\* C4: when a step after the load of a mutating command fails, neither the
\* config file nor the env file has changed.
C4_AllOrNothing ==
    (call.cmd \in ChannelWrites /\ ~ret.ok) =>
        (cfgFile = pre.cfg /\ envFile = pre.env)

AccountsAt(file, channel_id) == Pointer(RawDoc(file), "/channels/" \o channel_id \o "/accounts")

\* C6: save_channel_config stores entry.accounts when it is present and
\* non-empty; in every other case accounts that were on disk are still there.
C6_AccountsKept ==
    (call.cmd = "save_channel_config" /\ ret.ok) =>
        IF IsSome(call.arg.accounts) /\ call.arg.accounts.v # <<>>
        THEN AccountsAt(cfgFile, call.arg.id) = call.arg.accounts
        ELSE IsSome(AccountsAt(pre.cfg, call.arg.id))
                => AccountsAt(cfgFile, call.arg.id) = AccountsAt(pre.cfg, call.arg.id)

ChannelIndex(channel_id) == CHOOSE i \in 1..Len(ChannelTypes) : ChannelTypes[i].id = channel_id

ClearedEnvKeys(channel_id) ==
    {"OPENCLAW_" \o ToUppercase(channel_id) \o "_" \o f : f \in {"USERID", "TESTCHATID", "TESTCHANNELID"}}

\* C10: after clear_channel_config(id) the document has no channels.<id>, no id
\* in plugins.allow, no plugins.entries.<id> and no binding pair of that channel,
\* the env file has none of its three test keys, and a get_channels_config that
\* follows reports the channel as not enabled, with empty config and no accounts.
C10_ClearedChannelGone ==
    (call.cmd = "clear_channel_config" /\ ret.ok) =>
        LET id    == call.arg
            doc   == RawDoc(cfgFile)
            allow == Pointer(doc, "/plugins/allow")
            view  == get_channels_config(cfgFile, envFile)
        IN  /\ IsNone(Pointer(doc, "/channels/" \o id))
            /\ IsArray(allow) => ~Contains(allow.v, Str(id))
            /\ IsNone(Pointer(doc, "/plugins/entries/" \o id))
            /\ \A p \in DOMAIN parse_account_bindings(UnwrapOr(Get(doc, "bindings"), Arr(<<>>))) :
                   p[1] # id
            /\ ClearedEnvKeys(id) \cap DOMAIN envFile = {}
            /\ view.ok =>
                  /\ ~view.val[ChannelIndex(id)].enabled
                  /\ view.val[ChannelIndex(id)].config = <<>>
                  /\ IsNone(view.val[ChannelIndex(id)].accounts)

\* a channel that had a block, a binding, an allow entry and a test key is cleared
C10_Witness ==
    /\ call.cmd = "clear_channel_config" /\ ret.ok
    /\ IsSome(Pointer(RawDoc(pre.cfg), "/channels/" \o call.arg))
    /\ \E p \in DOMAIN parse_account_bindings(UnwrapOr(BindingsOf(pre.cfg), Arr(<<>>))) :
           p[1] = call.arg
    /\ ClearedEnvKeys(call.arg) \cap DOMAIN pre.env # {}
    /\ get_channels_config(pre.cfg, pre.env).ok
    /\ get_channels_config(pre.cfg, pre.env).val[ChannelIndex(call.arg)].enabled
    /\ get_channels_config(cfgFile, envFile).ok

\* C11: after save_channel_config(entry) the stored channels.<id> has none of
\* the keys userId, testChatId, testChannelId, and each of these keys that
\* entry.config carries is in the env file under OPENCLAW_<ID>_<FIELD>, with
\* the value handed over when that is a string.
C11_TestFieldsToEnv ==
    (call.cmd = "save_channel_config" /\ ret.ok) =>
        LET id    == call.arg.id
            block == Pointer(RawDoc(cfgFile), "/channels/" \o id)
        IN  /\ IsObject(block)
            /\ \A k \in DOMAIN block.v : ~IsTestOnly(k)
            /\ \A k \in DOMAIN call.arg.config :
                  IsTestOnly(k) =>
                      /\ EnvKey(id, k) \in DOMAIN envFile
                      /\ IsString(call.arg.config[k])
                            => envFile[EnvKey(id, k)] = call.arg.config[k].v

RenderedAsDescribed ==
    call.cmd = "render" =>
        LET original == call.arg.original
            pairs    == call.arg.pairs
            r        == ret.val
        IN  IF IsArray(original) \/ ~IsObject(original)
            THEN /\ IsArray(r)
                 /\ Len(r.v) = Cardinality(DOMAIN pairs)
                 /\ \A p \in DOMAIN pairs :
                        \E i \in 1..Len(r.v) : r.v[i] = BindingEntry(p[1], p[2], pairs[p])
            ELSE IF \A k \in DOMAIN original.v : IsString(original.v[k])
            THEN /\ IsObject(r)
                 /\ DOMAIN r.v = {p[1] \o "/" \o p[2] : p \in DOMAIN pairs}
                 /\ \A p \in DOMAIN pairs : r.v[p[1] \o "/" \o p[2]] = Str(pairs[p])
            ELSE /\ IsObject(r)
                 /\ DOMAIN r.v = {p[1] : p \in DOMAIN pairs}
                 /\ \A c \in DOMAIN r.v :
                        /\ IsObject(r.v[c])
                        /\ DOMAIN r.v[c].v = {p[2] : p \in {q \in DOMAIN pairs : q[1] = c}}
                 /\ \A p \in DOMAIN pairs : r.v[p[1]].v[p[2]] = Str(pairs[p])

\* C13: merge_bindings_payload_by_shape renders the pairs as the array of
\* {agentId, match} objects, the flat object or the grouped object that the
\* original calls for, and its result is a function of (original, pairs) only:
\* two calls with the same original and the same pairs return the same value.
C13_RenderIsFunction ==
    [][/\ RenderedAsDescribed'
       /\ (call.cmd = "render" /\ call'.cmd = "render" /\ call'.arg = call.arg)
              => ret'.val = ret.val]_vars

\* what C14 says a piece of text becomes; a piece that cannot be replaced has no entry
PieceOut ==
    ("ab" :> "ab") @@ ("}" :> "}") @@ ("$" :> "$") @@ ("$5" :> "$5") @@ ("{x}" :> "{x}")
    @@ ("$${TG_TOKEN}" :> "${TG_TOKEN}") @@ ("$${ x y }" :> "${ x y }")
    @@ ("${TG_TOKEN}" :> "tg-secret") @@ ("${OPENAI_KEY}" :> "sk-live")
    @@ ("${ TG_TOKEN }" :> "tg-secret")
    @@ ("${TG_TOKEN" :> "${TG_TOKEN") @@ ("$${x" :> "$${x")

Replaceable(q) == \A i \in 1..Len(q) : q[i] \in DOMAIN PieceOut

RECURSIVE Out(_)
Out(q) == IF q = <<>> THEN "" ELSE PieceOut[Head(q)] \o Out(Tail(q))

\* the strings that C14 gives a result for, with that result
Described ==
    LET good == {q \in PieceSeqs : Replaceable(q)}
        tab  == [s \in {Text(q) : q \in good} |-> Out(CHOOSE q \in good : Text(q) = s)]
    IN  tab @@ ("${TG_TOKEN}/main" :> "tg-secret/main")

RECURSIVE Rewritten(_, _)
\* out is raw with every string leaf replaced as described and nothing else changed
Rewritten(raw, out) ==
    IF IsString(raw)
    THEN /\ IsString(out)
         /\ IF Find(raw.v, "$") = 0 THEN out.v = raw.v
            ELSE raw.v \in DOMAIN Described /\ out.v = Described[raw.v]
    ELSE IF IsArray(raw)
    THEN /\ IsArray(out)
         /\ Len(out.v) = Len(raw.v)
         /\ \A i \in 1..Len(raw.v) : Rewritten(raw.v[i], out.v[i])
    ELSE IF IsObject(raw)
    THEN /\ IsObject(out)
         /\ DOMAIN out.v = DOMAIN raw.v
         /\ \A k \in DOMAIN raw.v : Rewritten(raw.v[k], out.v[k])
    ELSE out = raw

\* C14: substitution turns $${NAME} into ${NAME}, ${NAME} into the value of NAME
\* (process environment first, env file otherwise) and copies every other
\* character, in every string leaf; keys, other leaves and the tree are as they were.
C14_SubstitutionAsDescribed ==
    (call.cmd = "get_config" /\ ret.ok) => Rewritten(RawDoc(cfgFile), ret.val)

\* a string with an escaped reference, a reference defined in both places and a
\* lone '$' was read
C14_Witness ==
    /\ call.cmd = "get_config" /\ ret.ok
    /\ \E s \in {"$${TG_TOKEN}${OPENAI_KEY}", "${OPENAI_KEY}$", "$${ x y }${ TG_TOKEN }"} :
          /\ GetPath(RawDoc(cfgFile), <<"models", "providers", "openai", "apiKey">>) = Str(s)
          /\ GetPath(ret.val, <<"channels", "telegram", "botToken">>) = Str(Described[s])
          /\ Described[s] # s

----------------------------------------------------------------------------
(* Properties of the provider commands *)

ProvidersOf(file) == GetPath(RawDoc(file), <<"models", "providers">>)

AvailableOf(file) == GetPath(RawDoc(file), <<"agents", "defaults", "models">>)

PrimaryOf(file) == GetPath(RawDoc(file), <<"agents", "defaults", "model", "primary">>)

\* C8: after delete_provider(name) the persisted document has no
\* models.providers.<name>, no key of agents.defaults.models that begins with
\* "<name>/" (the other keys and providers are as before), and the primary
\* model is null if it began with "<name>/" and unchanged otherwise.
C8_ProviderDeleted ==
    (call.cmd = "delete_provider" /\ ret.ok) =>
        LET name == call.arg
        IN  /\ IsObject(ProvidersOf(pre.cfg)) =>
                  /\ IsObject(ProvidersOf(cfgFile))
                  /\ DOMAIN ProvidersOf(cfgFile).v = (DOMAIN ProvidersOf(pre.cfg).v) \ {name}
            /\ IsObject(AvailableOf(pre.cfg)) =>
                  /\ IsObject(AvailableOf(cfgFile))
                  /\ DOMAIN AvailableOf(cfgFile).v =
                        {k \in DOMAIN AvailableOf(pre.cfg).v : ~StartsWith(k, name \o "/")}
            /\ IF IsString(PrimaryOf(pre.cfg)) /\ StartsWith(PrimaryOf(pre.cfg).v, name \o "/")
               THEN PrimaryOf(cfgFile) = Null
               ELSE PrimaryOf(cfgFile) = PrimaryOf(pre.cfg)

\* the deleted provider was configured, had a registered model and was the primary one
C8_Witness ==
    /\ call.cmd = "delete_provider" /\ ret.ok
    /\ HasKey(ProvidersOf(pre.cfg), call.arg)
    /\ \E k \in DOMAIN AvailableOf(pre.cfg).v : StartsWith(k, call.arg \o "/")
    /\ \E k \in DOMAIN AvailableOf(cfgFile).v : ~StartsWith(k, call.arg \o "/")
    /\ IsString(PrimaryOf(pre.cfg)) /\ StartsWith(PrimaryOf(pre.cfg).v, call.arg \o "/")
    /\ PrimaryOf(cfgFile) = Null

ApiKeyOf(file, provider_name) ==
    GetPath(RawDoc(file), <<"models", "providers", provider_name, "apiKey">>)

\* C9: save_provider stores a non-empty apiKey argument; with an empty or absent
\* argument the stored provider has the apiKey it had on disk before the call
\* (none if it had none), for every provider name.
C9_ApiKeyKept ==
    (call.cmd = "save_provider" /\ ret.ok) =>
        IF IsSome(call.arg.api_key) /\ call.arg.api_key.v # ""
        THEN ApiKeyOf(cfgFile, call.arg.provider_name) = call.arg.api_key
        ELSE ApiKeyOf(cfgFile, call.arg.provider_name) = ApiKeyOf(pre.cfg, call.arg.provider_name)

----------------------------------------------------------------------------
(* Properties of save_config and of the gateway token *)

GatewayField(doc, field) == GetPath(doc, <<"gateway", field>>)

\* C3: after save_config(incoming), each of gateway.port, bind, trustedProxies
\* and reload has the incoming value when the incoming document defines it, and
\* the value of the document that was on disk when the incoming document omits
\* it and the one on disk defines it.
C3_CriticalFieldsKept ==
    (call.cmd = "save_config" /\ ret.ok) =>
        \A i \in 1..Len(CriticalFields) :
            LET incoming == GatewayField(call.arg, CriticalFields[i])
                old      == GatewayField(RawDoc(pre.cfg), CriticalFields[i])
                now      == GatewayField(RawDoc(cfgFile), CriticalFields[i])
            IN  /\ IsSome(incoming) => now = incoming
                /\ (IsNone(incoming) /\ IsSome(old)) => now = old

\* an incoming document without a gateway object is saved over one with port 18789
C3_Witness ==
    /\ call.cmd = "save_config" /\ ret.ok
    /\ ~IsObject(Get(call.arg, "gateway"))
    /\ GatewayField(RawDoc(pre.cfg), "port") = Num(18789)
    /\ GatewayField(RawDoc(cfgFile), "port") = Num(18789)

TokenOf(file) == AsStr(Pointer(RawDoc(file), "/gateway/auth/token"))

HasToken(file) == file.kind = "doc" /\ IsSome(TokenOf(file)) /\ TokenOf(file).v # ""

\* what a get_or_create_gateway_token call leaves behind
TokenCallOutcome ==
    call.cmd = "get_or_create_gateway_token" =>
        IF HasToken(pre.cfg)
        THEN ret = Ok(TokenOf(pre.cfg).v) /\ cfgFile = pre.cfg /\ envFile = pre.env
        ELSE IF pre.cfg.kind = "garbage" THEN ~ret.ok /\ cfgFile = pre.cfg
        ELSE IF ret.ok
        THEN /\ ret.val # ""
             /\ TokenOf(cfgFile) = Str(ret.val)
             /\ GetPath(RawDoc(cfgFile), <<"gateway", "auth", "mode">>) = Str("token")
             /\ GetPath(RawDoc(cfgFile), <<"gateway", "mode">>) = Str("local")
        ELSE ret.val = "write failed" /\ cfgFile = pre.cfg

\* C7: get_or_create_gateway_token returns an existing non-empty token and
\* writes nothing; when the token is missing or empty it stores a new non-empty
\* token with gateway.auth.mode = "token" and gateway.mode = "local" and returns
\* it; two successive successful calls return the same token.
C7_TokenIdempotent ==
    /\ []TokenCallOutcome
    /\ [][(call.cmd = "get_or_create_gateway_token" /\ ret.ok
           /\ call'.cmd = "get_or_create_gateway_token" /\ ret'.ok)
          => ret'.val = ret.val]_vars

\* a token was created where there was no config file, and the next call returned it
C7_Witness ==
    /\ steps = 2
    /\ call.cmd = "get_or_create_gateway_token" /\ ret.ok
    /\ init.kind = "missing"
    /\ HasToken(pre.cfg)
    /\ ret.val \in GeneratedTokens

----------------------------------------------------------------------------
(* Properties of the whole document *)

\* the RFC 6901 token of an array index
IndexToken(i) == IF i < 10 THEN SubSeq(Digits, i + 1, i + 1)
                 ELSE SubSeq(Digits, (i \div 10) + 1, (i \div 10) + 1)
                      \o SubSeq(Digits, (i % 10) + 1, (i % 10) + 1)

HasSub(s, pat) == \E i \in 1..(Len(s) - Len(pat) + 1) : SubSeq(s, i, i + Len(pat) - 1) = pat

RECURSIVE StringLeaves(_)
\* the strings a document holds as values
StringLeaves(value) ==
    IF IsString(value) THEN {value.v}
    ELSE IF IsArray(value) THEN UNION {StringLeaves(value.v[i]) : i \in 1..Len(value.v)}
    ELSE IF IsObject(value) THEN UNION {StringLeaves(value.v[k]) : k \in DOMAIN value.v}
    ELSE {}

RECURSIVE ReferencePaths(_)
\* where a document holds a string with a variable reference, escaped or not
ReferencePaths(value) ==
    IF IsString(value) THEN (IF HasSub(value.v, "${") THEN {<<>>} ELSE {})
    ELSE IF IsArray(value)
    THEN UNION {{<<IndexToken(i - 1)>> \o p : p \in ReferencePaths(value.v[i])} :
                  i \in 1..Len(value.v)}
    ELSE IF IsObject(value)
    THEN UNION {{<<k>> \o p : p \in ReferencePaths(value.v[k])} : k \in DOMAIN value.v}
    ELSE {}

\* what reading with substitution turns the strings of a document into
Substituted(doc, env) ==
    {replace_config_vars_in_string(s, load_env_file_vars(env)).val :
        s \in {t \in StringLeaves(doc) :
                 /\ replace_config_vars_in_string(t, load_env_file_vars(env)).ok
                 /\ replace_config_vars_in_string(t, load_env_file_vars(env)).val # t}}

RECURSIVE At(_, _)
\* the value at a path of object keys and array index tokens, None when there is none
At(x, path) ==
    IF path = <<>> THEN x
    ELSE IF IsObject(x)
    THEN IF Head(path) \in DOMAIN x.v THEN At(x.v[Head(path)], Tail(path)) ELSE None
    ELSE IF IsArray(x)
    THEN LET i == ParseIndex(Head(path))
         IN  IF i >= 0 /\ i < Len(x.v) THEN At(x.v[i + 1], Tail(path)) ELSE None
    ELSE None

IsPrefix(q, p) == Len(q) <= Len(p) /\ SubSeq(p, 1, Len(q)) = q

\* the strings the caller of a command handed over as part of a document
Supplied(c) ==
    IF c.cmd \in {"save_config", "save_agents_list", "save_bindings"}
    THEN StringLeaves(c.arg) ELSE {}

\* the part of the document a command replaces with what its caller supplied
Overwrites(c, p) ==
    IF c.cmd = "save_config"
    THEN ~(/\ Len(p) >= 2
           /\ p[1] = "gateway"
           /\ \E i \in 1..Len(CriticalFields) : CriticalFields[i] = p[2]
           /\ IsNone(Get(Get(c.arg, "gateway"), p[2])))
    ELSE IF c.cmd = "save_agents_list" THEN IsPrefix(<<"agents", "list">>, p)
    ELSE IF c.cmd = "save_bindings" THEN IsPrefix(<<"bindings">>, p)
    ELSE IF c.cmd = "get_or_create_gateway_token"
    THEN \/ IsPrefix(<<"gateway", "auth", "token">>, p)
         \/ IsPrefix(<<"gateway", "auth", "mode">>, p)
         \/ IsPrefix(<<"gateway", "mode">>, p)
    ELSE IF c.cmd = "save_provider"
    THEN \/ /\ IsPrefix(<<"models", "providers", c.arg.provider_name>>, p)
            /\ ~(/\ p = <<"models", "providers", c.arg.provider_name, "apiKey">>
                 /\ (IsNone(c.arg.api_key) \/ c.arg.api_key = Str("")))
         \/ IsPrefix(<<"agents", "defaults", "models">>, p)
         \/ IsPrefix(<<"meta", "lastTouchedAt">>, p)
    ELSE IF c.cmd = "delete_provider"
    THEN \/ IsPrefix(<<"models", "providers", c.arg>>, p)
         \/ IsPrefix(<<"agents", "defaults", "models">>, p)
         \/ IsPrefix(<<"agents", "defaults", "model", "primary">>, p)
    ELSE IF c.cmd = "set_primary_model"
    THEN IsPrefix(<<"agents", "defaults", "model", "primary">>, p)
    ELSE IF c.cmd \in {"add_available_model", "remove_available_model"}
    THEN IsPrefix(<<"agents", "defaults", "models">>, p)
    ELSE IF c.cmd = "save_channel_config"
    THEN \/ /\ IsPrefix(<<"channels", c.arg.id>>, p)
            /\ ~(/\ IsPrefix(<<"channels", c.arg.id, "accounts">>, p)
                 /\ IsNone(c.arg.accounts))
         \/ IsPrefix(<<"plugins", "allow">>, p)
         \/ IsPrefix(<<"plugins", "entries", c.arg.id>>, p)
         \/ IsPrefix(<<"bindings">>, p)
    ELSE IF c.cmd = "clear_channel_config"
    THEN \/ IsPrefix(<<"channels", c.arg>>, p)
         \/ IsPrefix(<<"plugins", "allow">>, p)
         \/ IsPrefix(<<"plugins", "entries", c.arg>>, p)
         \/ IsPrefix(<<"bindings">>, p)
    ELSE FALSE

\* C2: no command persists a substituted value. After every command, (1) a
\* string that is new on disk and is what substitution makes of a string the
\* file held before was handed over by the caller, and (2) every string with
\* ${VAR} or $${VAR} the file held before, outside the part the command
\* replaces with caller-supplied data, is character for character the same
\* at the same place; a provider key the caller did not supply is either the
\* raw one or gone.
C2_NoSubstitutedValuePersisted ==
    LET before == RawDoc(pre.cfg)
        after  == RawDoc(cfgFile)
    IN  /\ ((StringLeaves(after) \ StringLeaves(before)) \cap Substituted(before, pre.env))
               \subseteq Supplied(call)
        /\ \A p \in ReferencePaths(before) :
               \/ Overwrites(call, p)
               \/ At(after, p) = At(before, p)
               \/ /\ call.cmd = "save_provider"
                  /\ p = <<"models", "providers", call.arg.provider_name, "apiKey">>
                  /\ IsNone(At(after, p))

\* save_provider without a key rewrote the provider whose key is ${OPENAI_KEY}:
\* the key and the references of the other sections are on disk as they were
C2_Witness ==
    /\ ret.ok
    /\ cfgFile # pre.cfg
    /\ call.cmd = "save_provider"
    /\ call.arg.provider_name = "openai"
    /\ IsNone(call.arg.api_key)
    /\ At(RawDoc(pre.cfg), <<"models", "providers", "openai", "apiKey">>) = Str("${OPENAI_KEY}")
    /\ At(RawDoc(cfgFile), <<"models", "providers", "openai", "apiKey">>) = Str("${OPENAI_KEY}")
    /\ At(RawDoc(cfgFile), <<"custom", "note">>) = Str("$${LITERAL}")
    /\ At(RawDoc(cfgFile), <<"agents", "list", "0", "workspace">>) = Str("${WS_DIR}/main")

----------------------------------------------------------------------------
(* Properties of handlers that run at the same time *)

\* the document on disk after k writes
Version(k) == IF k = 0 THEN RawDoc(init) ELSE order[k].doc

\* the place a command is called to change
Target(c) ==
    CASE c.cmd = "save_provider"       -> <<"models", "providers", c.arg.provider_name>>
      [] c.cmd = "set_primary_model"   -> <<"agents", "defaults", "model", "primary">>
      [] c.cmd = "save_agents_list"    -> <<"agents", "list">>
      [] c.cmd = "save_bindings"       -> <<"bindings">>
      [] c.cmd = "save_channel_config" -> <<"channels", c.arg.id>>
      [] c.cmd = "get_or_create_gateway_token" -> <<"gateway", "auth", "token">>

\* C5: with handlers running at the same time, the file always holds the whole
\* document of the write that completed last (the initial file before any); that
\* document is what its writer built from the version it loaded; and a change
\* another handler wrote after that load, at a place the last writer's command
\* does not address, is not in it: the place holds what the loaded version held.
C5_LastWriterWins ==
    /\ cfgFile = IF order = <<>> THEN init ELSE Doc(order[Len(order)].doc)
    /\ \A n \in 1..Len(order) :
          LET w == order[n]
          IN  /\ w.at < n
              /\ \E o \in Outcomes(w.call, Version(w.at), envFile) : o.doc = w.doc
              /\ \A j \in (w.at + 1)..(n - 1) :
                    ~Overwrites(w.call, Target(order[j].call))
                        => At(w.doc, Target(order[j].call))
                               = At(Version(w.at), Target(order[j].call))

\* a lost update: both handlers loaded the initial file, the first write changed
\* its target, the second write put the old value back, and both are done
C5_Witness ==
    /\ Len(order) = 2
    /\ order[1].handler # order[2].handler
    /\ order[1].at = 0
    /\ order[2].at = 0
    /\ pc = Idle
    /\ At(order[1].doc, Target(order[1].call)) # At(RawDoc(init), Target(order[1].call))
    /\ ~Overwrites(order[2].call, Target(order[1].call))
    /\ At(RawDoc(cfgFile), Target(order[1].call)) = At(RawDoc(init), Target(order[1].call))

\* the names a reference may use: those of the process environment and of the env file
Defined == (DOMAIN ProcEnv) \cup (DOMAIN load_env_file_vars(envFile))

RECURSIVE BadReferenceFrom(_, _)
\* from position i on, s has a ${NAME} (not behind a '$' that escapes it) whose
\* NAME is empty after trimming or is not defined
BadReferenceFrom(s, i) ==
    LET n      == Len(s)
        escEnd == IF StartsWith(SubSeq(s, i, n), "$${") THEN FindClose(s, i + 3) ELSE 0
        varEnd == IF StartsWith(SubSeq(s, i, n), "${") THEN FindClose(s, i + 2) ELSE 0
    IN  IF i > n THEN FALSE
        ELSE IF escEnd # 0 THEN BadReferenceFrom(s, escEnd + 1)
        ELSE IF varEnd # 0
        THEN \/ Trim(SubSeq(s, i + 2, varEnd - 1)) \notin Defined
             \/ BadReferenceFrom(s, varEnd + 1)
        ELSE BadReferenceFrom(s, i + 1)

ReadCommands ==
    {"get_config", "get_agents_list", "get_bindings", "get_ai_config", "get_channels_config"}

\* C15: when a string of the document on disk has a ${NAME} whose NAME is empty
\* after trimming or is defined nowhere, every read command returns an error
\* and no document.
C15_BadReferenceFailsEveryRead ==
    (/\ call.cmd \in ReadCommands
     /\ \E s \in StringLeaves(RawDoc(cfgFile)) : BadReferenceFrom(s, 1))
        => ~ret.ok /\ ret.val \in STRING

\* a read other than get_config failed on a document whose only bad reference
\* stands behind a good one in botToken and apiKey
C15_Witness ==
    /\ call.cmd = "get_ai_config"
    /\ GetPath(RawDoc(cfgFile), <<"channels", "telegram", "botToken">>) = Str("${TG_TOKEN}${NOPE}")
    /\ ~ret.ok

\* C16: a command that finds a config file neither parser accepts returns the
\* parse error, and the file is afterwards as it was.
C16_UnparsableFileKept ==
    (call.cmd # "none" /\ pre.cfg = Garbage)
        => ret = Err("JSON/JSON5 parse failed") /\ cfgFile = Garbage

\* the provider name of the last save_provider call is empty or blank
BlankNameSent ==
    \/ call.cmd = "save_provider" /\ IsBlank(call.arg.provider_name)
    \/ /\ call.cmd = "invoke:save_provider"
       /\ IsString(call.arg.provider_name)
       /\ IsBlank(call.arg.provider_name.v)

\* C17: save_provider with an empty or blank provider name returns an error and
\* leaves the config file as it was, as the desktop command and behind the
\* web dispatcher alike.
C17_BlankProviderNameRejected == BlankNameSent => ~ret.ok /\ cfgFile = pre.cfg

\* agents.defaults.models of the document on disk
AvailableOnDisk == GetPath(RawDoc(cfgFile), <<"agents", "defaults", "models">>)

\* the full ids a call registers
RegisteredBy(c) ==
    IF c.cmd = "save_provider"
    THEN {c.arg.provider_name \o "/" \o c.arg.models[i].id : i \in 1..Len(c.arg.models)}
    ELSE IF c.cmd = "invoke:save_provider"
    THEN {c.arg.provider_name.v \o "/" \o c.arg.models[i].id : i \in 1..Len(c.arg.models)}
    ELSE IF c.cmd = "add_available_model" THEN {c.arg}
    ELSE {}

\* C18: a successful save_provider or add_available_model leaves every id it
\* registers as a key of agents.defaults.models; when all of them were keys
\* already the mapping is as it was, and so it is when the call repeats the
\* one before it.
C18_RegistrationIdempotent ==
    [][(steps' = steps + 1 /\ ret'.ok /\ RegisteredBy(call') # {})
          => /\ IsObject(AvailableOnDisk')
             /\ RegisteredBy(call') \subseteq DOMAIN AvailableOnDisk'.v
             /\ (IsObject(AvailableOnDisk) /\ RegisteredBy(call') \subseteq DOMAIN AvailableOnDisk.v)
                    => AvailableOnDisk' = AvailableOnDisk
             /\ (call' = call /\ ret.ok) => AvailableOnDisk' = AvailableOnDisk]_vars

RECURSIVE LeafPaths(_)
\* the paths of a document that end in a value with nothing below it
LeafPaths(value) ==
    IF IsArray(value) /\ Len(value.v) > 0
    THEN UNION {{<<IndexToken(i - 1)>> \o p : p \in LeafPaths(value.v[i])} : i \in 1..Len(value.v)}
    ELSE IF IsObject(value) /\ DOMAIN value.v # {}
    THEN UNION {{<<k>> \o p : p \in LeafPaths(value.v[k])} : k \in DOMAIN value.v}
    ELSE {<<>>}

\* the sections C19 lists for a command
Sections(c) ==
    IF c.cmd \in {"save_channel_config", "clear_channel_config"}
    THEN LET id == IF c.cmd = "save_channel_config" THEN c.arg.id ELSE c.arg
         IN  {<<"channels", id>>, <<"plugins", "allow">>, <<"plugins", "entries", id>>, <<"bindings">>}
    ELSE IF c.cmd \in {"save_provider", "delete_provider", "set_primary_model",
                       "add_available_model", "remove_available_model"}
    THEN {<<"agents", "defaults", "models">>, <<"agents", "defaults", "model", "primary">>,
          <<"meta", "lastTouchedAt">>}
         \cup (IF c.cmd = "save_provider" THEN {<<"models", "providers", c.arg.provider_name>>}
               ELSE IF c.cmd = "delete_provider" THEN {<<"models", "providers", c.arg>>}
               ELSE {})
    ELSE IF c.cmd = "save_agents_list" THEN {<<"agents", "list">>}
    ELSE IF c.cmd = "save_bindings" THEN {<<"bindings">>}
    ELSE IF c.cmd = "get_or_create_gateway_token"
    THEN {<<"gateway", "auth", "token">>, <<"gateway", "auth", "mode">>, <<"gateway", "mode">>}
    ELSE {}

\* p lies in a section of c, or is an empty object on the way to one
Addressed(c, p) == \E s \in Sections(c) : IsPrefix(s, p) \/ IsPrefix(p, s)

\* C19: a mutating command other than save_config changes only the sections it
\* addresses: every value of the document outside them is the same before and
\* after the command.
C19_OnlyOwnSection ==
    (call.cmd \notin {"none", "save_config"})
        => LET before == RawDoc(pre.cfg)
               after  == RawDoc(cfgFile)
           IN  \A p \in LeafPaths(before) \cup LeafPaths(after) :
                   Addressed(call, p) \/ At(after, p) = At(before, p)

\* save_provider rewrote a provider, the available models and meta.lastTouchedAt
\* of a document that has an agents list, channels, a gateway and a key the
\* manager does not know
C19_Witness ==
    /\ call.cmd = "save_provider" /\ ret.ok
    /\ At(RawDoc(cfgFile), <<"models", "providers", "openai">>)
           # At(RawDoc(pre.cfg), <<"models", "providers", "openai">>)
    /\ IsString(At(RawDoc(cfgFile), <<"meta", "lastTouchedAt">>))
    /\ At(RawDoc(pre.cfg), <<"custom", "note">>) = Str("$${LITERAL}")
    /\ At(RawDoc(pre.cfg), <<"agents", "list">>) = AgentsListRaw

\* the text of the test: a comment, bare keys and trailing commas
Json5Sample == ConfigText("{ // the gateway\n  ", "", "\"t1\"", ",", "}")

\* the same document as plain JSON
JsonSample == ConfigText("{", "\"", "\"t1\"", "", "}")

SampleValue ==
    Obj("gateway" :> Obj(("auth" :> Obj("token" :> Str("t1"))) @@ ("port" :> Num(18789))))

\* C20: parse_openclaw_config_content accepts a text exactly when the JSON5
\* parser or the strict JSON parser accepts it and returns the value of the
\* first of the two that does; plain JSON and JSON5 with a comment, trailing
\* commas and bare keys give the document with its nested fields; a text both
\* reject gives one error with the marker and the messages of both parsers.
C20_ParsedByEitherParser ==
    (call.cmd = "parse")
        => LET json5 == json5_from_str(call.arg)
               json  == serde_json_from_str(call.arg)
           IN  /\ ret.ok <=> (json5.ok \/ json.ok)
               /\ json5.ok => ret = json5
               /\ (~json5.ok /\ json.ok) => ret = json
               /\ (~json5.ok /\ ~json.ok)
                      => /\ HasSub(ret.val, ParseFailed)
                         /\ HasSub(ret.val, json5.val)
                         /\ HasSub(ret.val, json.val)
               /\ call.arg \in {Json5Sample, JsonSample} => ret = Ok(SampleValue)

\* the JSON5 text with a comment, bare keys and trailing commas, which strict
\* JSON rejects, was parsed into the document
C20_Witness ==
    /\ call.cmd = "parse"
    /\ call.arg = Json5Sample
    /\ ~serde_json_from_str(call.arg).ok
    /\ GetPath(ret.val, <<"gateway", "auth", "token">>) = Str("t1")

\* the pairs of the bindings of a file
PairsOf(file) == parse_account_bindings(UnwrapOr(Get(RawDoc(file), "bindings"), Arr(<<>>)))

\* the channel a save_channel_config or clear_channel_config call is about
ChannelOf(c) == IF c.cmd = "save_channel_config" THEN c.arg.id ELSE c.arg

\* the pairs of f whose channel is not id
OfOtherChannels(f, id) == [p \in {q \in DOMAIN f : q[1] # id} |-> f[p]]

OfChannel(f, id) == [p \in {q \in DOMAIN f : q[1] = id} |-> f[p]]

\* the accounts of an entry that name an agent: objects whose agentId is a
\* string with something other than blanks in it
NamedAccounts(entry) ==
    IF IsNone(entry.accounts) THEN {}
    ELSE {acc \in DOMAIN entry.accounts.v :
            /\ IsObject(entry.accounts.v[acc])
            /\ "agentId" \in DOMAIN entry.accounts.v[acc].v
            /\ IsString(entry.accounts.v[acc].v["agentId"])
            /\ Trim(entry.accounts.v[acc].v["agentId"].v) # ""}

\* C22: after save_channel_config(entry) the pairs of the entry's channel are
\* exactly those of the accounts of the entry that name an agent; what was on
\* disk for the channel and is not supplied again is gone.
C22_ChannelPairsReplaced ==
    (call.cmd = "save_channel_config" /\ ret.ok)
        => OfChannel(PairsOf(cfgFile), call.arg.id)
               = [p \in {<<call.arg.id, acc>> : acc \in NamedAccounts(call.arg)} |->
                     call.arg.accounts.v[p[2]].v["agentId"].v]

\* telegram was saved with one account that names an agent and one with a blank
\* agentId, on bindings that held (telegram, default): the named account is
\* the one telegram pair
C22_Witness ==
    /\ call.cmd = "save_channel_config" /\ ret.ok
    /\ NamedAccounts(call.arg) = {"acc2"}
    /\ <<"telegram", "default">> \in DOMAIN PairsOf(pre.cfg)
    /\ OfChannel(PairsOf(cfgFile), "telegram") = OnePair("telegram", "acc2", "agentY")

\* plugins.allow of a file, as a sequence (empty when it is not an array)
AllowOf(file) ==
    LET allow == GetPath(RawDoc(file), <<"plugins", "allow">>)
    IN  IF IsArray(allow) THEN allow.v ELSE <<>>

\* how often val stands in arr
Occurrences(arr, val) == Cardinality({i \in 1..Len(arr) : arr[i] = val})

SeparatorOf(key) ==
    IF Find(key, "/") # 0 THEN "/"
    ELSE IF Find(key, ":") # 0 THEN ":"
    ELSE IF Find(key, ".") # 0 THEN "."
    ELSE ""

\* the triples C24 gives for element i of an array
ElementTriples(arr, i) ==
    LET e == arr[i]
    IN  IF /\ IsObject(e)
           /\ {"agentId", "match"} \subseteq DOMAIN e.v
           /\ IsString(e.v["agentId"])
           /\ IsObject(e.v["match"])
           /\ {"channel", "accountId"} \subseteq DOMAIN e.v["match"].v
           /\ IsString(e.v["match"].v["channel"])
           /\ IsString(e.v["match"].v["accountId"])
        THEN {<<e.v["match"].v["channel"].v, e.v["match"].v["accountId"].v, e.v["agentId"].v>>}
        ELSE {}

\* the triples C24 gives for the member of an object under key
MemberTriples(obj, key) ==
    LET value == obj[key]
        at    == Find(key, SeparatorOf(key))
    IN  IF IsString(value)
        THEN IF SeparatorOf(key) = "" THEN {}
             ELSE {<<SubSeq(key, 1, at - 1), SubSeq(key, at + 1, Len(key)), value.v>>}
        ELSE IF IsObject(value)
        THEN {<<key, acc, value.v[acc].v>> :
                 acc \in {a \in DOMAIN value.v : IsString(value.v[a])}}
             \cup {<<key, acc, value.v[acc].v["agentId"].v>> :
                      acc \in {a \in DOMAIN value.v :
                                  /\ IsObject(value.v[a])
                                  /\ "agentId" \in DOMAIN value.v[a].v
                                  /\ IsString(value.v[a].v["agentId"])}}
        ELSE {}

\* the mapping C24 describes for a bindings value: the triples of the elements
\* in their order, or of the members in the order of their keys, a later one
\* replacing an earlier one for the same (channel, accountId)
DescribedPairs(b) ==
    IF IsArray(b)
    THEN LET from(i) == ElementTriples(b.v, i)
             last(p) == CHOOSE i \in 1..Len(b.v) :
                           /\ \E t \in from(i) : <<t[1], t[2]>> = p
                           /\ \A j \in (i + 1)..Len(b.v) : \A t \in from(j) : <<t[1], t[2]>> # p
         IN  [p \in {<<t[1], t[2]>> : t \in UNION {from(i) : i \in 1..Len(b.v)}} |->
                 (CHOOSE t \in from(last(p)) : <<t[1], t[2]>> = p)[3]]
    ELSE IF IsObject(b)
    THEN LET from(k) == MemberTriples(b.v, k)
             last(p) == CHOOSE k \in DOMAIN b.v :
                           /\ \E t \in from(k) : <<t[1], t[2]>> = p
                           /\ \A j \in DOMAIN b.v :
                                  KeyLess(k, j) => \A t \in from(j) : <<t[1], t[2]>> # p
         IN  [p \in {<<t[1], t[2]>> : t \in UNION {from(k) : k \in DOMAIN b.v}} |->
                 (CHOOSE t \in from(last(p)) : <<t[1], t[2]>> = p)[3]]
    ELSE NoPairs

\* C24: parse_account_bindings returns the triples of the well-formed elements
\* of an array, of the string-valued keys of an object split at their first
\* '/', else ':', else '.', and of the entries of its object-valued keys, the
\* later entry winning for a pair that occurs twice; malformed entries are
\* skipped and any other value gives the empty mapping.
C24_ParsedAsDescribed ==
    (call.cmd = "parse_bindings") => ret = Ok(DescribedPairs(call.arg))

\* an array with a malformed element and a well-formed one behind it, or with
\* two agents for one pair, or a flat object with two keys for one pair, was parsed
C24_Witness ==
    /\ call.cmd = "parse_bindings"
    /\ \/ call.arg = Arr(<<Str("main"), BindingEntry("discord", "d1", "helper")>>)
       \/ /\ call.arg = Arr(<<BindingEntry("telegram", "default", "main"),
                              BindingEntry("telegram", "default", "other")>>)
          /\ ret.val = OnePair("telegram", "default", "other")
       \/ /\ IsObject(call.arg)
          /\ DOMAIN call.arg.v = {"telegram/default", "telegram:default", "slack:s1/x"}
          /\ ret.val = OnePair("telegram", "default", "other") @@ OnePair("slack:s1", "x", "main")
    /\ ret.val # NoPairs

\* a value without one layer of quotes around it: the same quote character at
\* both ends
Unquoted(v) ==
    IF Len(v) >= 2 /\ Chr(v, 1) = Chr(v, Len(v)) /\ Chr(v, 1) \in {"\"", "'"}
    THEN SubSeq(v, 2, Len(v) - 1) ELSE v

\* what C25 makes of a line: <<key, value>>, or <<>> for a line that is skipped
DescribedEntry(raw) ==
    LET line == Trim(raw)
        body == IF StartsWith(line, "export ") THEN SubSeq(line, 8, Len(line)) ELSE line
        eq   == Find(body, "=")
    IN  IF line = "" \/ StartsWith(line, "#") \/ eq = 0 \/ Trim(SubSeq(body, 1, eq - 1)) = ""
        THEN <<>>
        ELSE <<Trim(SubSeq(body, 1, eq - 1)), Unquoted(Trim(SubSeq(body, eq + 1, Len(body))))>>

\* the mapping C25 describes for the lines of a file, a later line replacing
\* an earlier one with the same key
DescribedVars(lines) ==
    LET used == {i \in 1..Len(lines) : DescribedEntry(lines[i]) # <<>>}
        last(k) == CHOOSE i \in used :
                      /\ DescribedEntry(lines[i])[1] = k
                      /\ \A j \in used : j > i => DescribedEntry(lines[j])[1] # k
    IN  [k \in {DescribedEntry(lines[i])[1] : i \in used} |-> DescribedEntry(lines[last(k)])[2]]

\* C25: reading the env file gives, for each line that is not blank and no
\* comment, with an optional "export " taken off, the key in front of the
\* first '=' and behind it the value without the blanks and without exactly
\* one layer of matching quotes around it; lines without '=' or without a key
\* are skipped, and no file gives the empty mapping.
C25_EnvFileAsDescribed ==
    (call.cmd = "load_env_file_vars")
        => ret.val = IF envFile.kind = "missing" THEN <<>>
                     ELSE DescribedVars(Lines(envFile.text))

----------------------------------------------------------------------------
(* Properties of the web server *)

\* the cookie of the last request names a session of the map that expired
\* later than the time of the request (pre.at)
NamesLiveSession(cookie) ==
    /\ IsSome(cookie)
    /\ cookie.v \in DOMAIN sessions
    /\ sessions[cookie.v].expires_at > pre.at \div NANOS_PER_SEC

\* C26: POST /api/invoke calls dispatch_command only when the request's cookie
\* names a session that is in the session map and has not expired; a request
\* with no cookie, an unknown token or an expired session is answered 401 and
\* no command runs (the config file is as it was)
C26_InvokeNeedsLiveSession ==
    (call.cmd = "api_invoke")
        => /\ ret.dispatched => NamesLiveSession(call.cookie)
           /\ ~NamesLiveSession(call.cookie)
                  => ret.status = 401 /\ ~ret.dispatched /\ cfgFile = pre.cfg

\* an invoke carrying the token of a session that has expired was refused
C26_Witness ==
    /\ call.cmd = "api_invoke"
    /\ IsSome(call.cookie)
    /\ call.cookie.v \in DOMAIN sessions
    /\ sessions[call.cookie.v].expires_at <= pre.at \div NANOS_PER_SEC
    /\ ret.status = 401

\* C27: a token that a logout request carried is not in the session map, no
\* login issues it again, and every later /api/invoke or /api/auth/me that
\* carries it is answered 401
C27_LoggedOutStaysOut ==
    /\ \A t \in loggedOut : t \notin DOMAIN sessions
    /\ (call.cmd = "auth_login" /\ ret.status = 200) => ret.val \notin loggedOut
    /\ (call.cmd \in {"api_invoke", "auth_me"} /\ IsSome(call.cookie)
        /\ call.cookie.v \in loggedOut)
           => ret.status = 401 /\ ~ret.dispatched

\* a login succeeded after a logout that carried a token the server had issued
C27_Witness ==
    /\ call.cmd = "auth_login"
    /\ ret.status = 200
    /\ loggedOut \ {"deleted"} # {}

\* C28: the administrator credentials are written at most once: at most one
\* setup request succeeds, and a setup answered while the auth config file
\* exists does not succeed and leaves the file as it was
C28_CredentialsWrittenOnce ==
    /\ Len(order) <= 1
    /\ (call.cmd = "auth_setup" /\ IsSome(pre.auth))
           => authFile = pre.auth /\ ret.status # 200

----------------------------------------------------------------------------
(* Properties of the gateway token under handlers that run at the same time *)

\* the tokens that get_or_create_gateway_token calls have returned after
\* storing them (order[n].val is what the handler returns once its save is done)
ReturnedTokens ==
    {order[n].val : n \in {i \in 1..Len(order) :
                             order[i].call.cmd = "get_or_create_gateway_token"}}

\* C29: once every handler has completed, each token that a
\* get_or_create_gateway_token call returned is the gateway.auth.token the
\* file holds
C29_ReturnedTokenIsStored ==
    (pc = Idle)
        => \A t \in ReturnedTokens :
              Pointer(RawDoc(cfgFile), "/gateway/auth/token") = Str(t)

----------------------------------------------------------------------------
(* Properties of the model identifiers *)

\* the model ids listed in models.providers.<p>.models of the document
ListedModels(doc, p) ==
    LET models == Index(Index(Index(Index(doc, "models"), "providers"), p), "models")
    IN  IF IsArray(models)
        THEN {models.v[i].v["id"].v :
                 i \in {j \in 1..Len(models.v) : IsString(Index(models.v[j], "id"))}}
        ELSE {}

\* the names under models.providers
ConfiguredProviders(doc) ==
    LET providers == Pointer(doc, "/models/providers")
    IN  IF IsObject(providers) THEN DOMAIN providers.v ELSE {}

\* the providers p for which id reads "p/m"
ProvidersNamedBy(doc, id) == {p \in ConfiguredProviders(doc) : StartsWith(id, p \o "/")}

\* id names, as "p/m", a model m that configured provider p lists
ListedUnder(doc, id, p) ==
    SubSeq(id, Len(p) + 2, Len(id)) \in ListedModels(doc, p)

\* C30: after provider and model commands every model identifier of the
\* document resolves: the primary model, when it is a string, is "p/m" for a
\* configured provider p that lists m, and every key "p/m" of
\* agents.defaults.models with p a configured provider names a model p lists
C30_ModelIdsResolve ==
    LET doc     == RawDoc(cfgFile)
        primary == Pointer(doc, "/agents/defaults/model/primary")
        models  == Pointer(doc, "/agents/defaults/models")
    IN  /\ IsString(primary)
              => \E p \in ProvidersNamedBy(doc, primary.v) : ListedUnder(doc, primary.v, p)
        /\ IsObject(models)
              => \A id \in DOMAIN models.v :
                    \A p \in ProvidersNamedBy(doc, id) : ListedUnder(doc, id, p)

====
